---- MODULE Spec2Model ----
(***************************************************************************)
(* Model of the Google Meet Tasks Bot server (src/app.js), its middleware  *)
(* (middleware/security.js and middleware/validation.js, kept in           *)
(* src/unnamed/part_009), its rate limiters (config/security.js, quoted in *)
(* src/unnamed/part_007), its upload gate (middleware/fileUpload.js,       *)
(* quoted in src/README.md) and the extractor src/utils/geminiHelper.js.   *)
(*                                                                         *)
(* Four specifications share the definitions:                              *)
(*   Spec       one request through the route chains of app.js, with       *)
(*              req.cookies populated as a cookie parser would supply it   *)
(*              (the state every middleware of part_009 is written for);   *)
(*   SpecApp    one request through app.js exactly as it mounts its global *)
(*              middleware: no cookie parser is mounted, so req.cookies is *)
(*              undefined in every request;                                *)
(*   SpecGemini one run of GeminiHelper.extractActionItems;                *)
(*   SpecConcurrent the /add-task handlers of two users, interleaved at    *)
(*              their awaits.                                              *)
(*                                                                         *)
(* Strings are modelled as sequences of lexemes (Text): each lexeme is a   *)
(* maximal run of word characters, a run of white space, a punctuation     *)
(* mark, or one piece of markup.  Length counts characters.                *)
(***************************************************************************)
EXTENDS Integers, Sequences, FiniteSets, TLC

VARIABLES
    hits,     \* rate-limiter counters: limiter -> client IP -> hits in the window
    now,      \* the last value Date.now() returned
    pc,       \* where the request in flight stands in its middleware chain
    req,      \* the request: inputs and what the middleware attached to it
    res,      \* the response (sent = FALSE until one is written)
    calls,    \* the external calls issued for this request, in order
    h,        \* locals of the running route handler
    gh,       \* the GeminiHelper run (SpecGemini)
    inflight  \* /add-task requests of several users in flight (SpecConcurrent)

vars == <<hits, now, pc, req, res, calls, h, gh, inflight>>

-----------------------------------------------------------------------------
(* Bounds of the model *)

\* Date.now() ranges over 2..MaxNow; the request arrives at 2.
MaxNow == 3
\* Longest batch /confirm-tasks is given.
MaxBatch == 2

-----------------------------------------------------------------------------
(* JavaScript values *)

Undef == [t |-> "undefined"]
Null == [t |-> "null"]
Num(n) == [t |-> "number", v |-> n]
\* a string, holding its text (a sequence of lexemes; <<>> is '')
Str(text) == [t |-> "string", v |-> text]

\* JavaScript truthiness of a value.
Truthy(v) ==
    CASE v.t = "undefined" -> FALSE
      [] v.t = "null" -> FALSE
      [] v.t = "number" -> v.v # 0
      [] v.t = "string" -> v.v # <<>>
      [] OTHER -> TRUE

\* Reading a property of null or undefined throws a TypeError.
PropThrows(v) == v.t \in {"null", "undefined"}

\* v.access_token, v.expiry_date, ... : undefined on a primitive.
Prop(v, f) == IF v.t = "object" THEN v[f] ELSE Undef

\* an array
Array(items) == [t |-> "array", v |-> items]

\* a || b
OrElse(a, b) == IF Truthy(a) THEN a ELSE b

\* A piece of text s that denotes the JSON value v, and one that is not JSON:
\* JSON.parse yields v on the first and throws a SyntaxError on the second.
JsonText(s, v) == [t |-> "string", v |-> <<s>>, json |-> TRUE, value |-> v]
NotJson(s) == [t |-> "string", v |-> <<s>>, json |-> FALSE, value |-> Undef]

JSONParse(text) ==
    IF text.json THEN [ok |-> TRUE, value |-> text.value]
    ELSE [ok |-> FALSE, value |-> Undef]

-----------------------------------------------------------------------------
(* Text: sequences of lexemes *)

RECURSIVE Rep(_, _)
\* s repeated n times ('a'.repeat(n))
Rep(s, n) ==
    IF n = 0 THEN ""
    ELSE IF n = 1 THEN s
    ELSE LET half == Rep(s, n \div 2)
         IN IF n % 2 = 0 THEN half \o half ELSE half \o half \o s

RECURSIVE Length(_)
\* String.prototype.length
Length(text) == IF text = <<>> THEN 0 ELSE Len(Head(text)) + Length(Tail(text))

WhiteSpace == {" ", "  ", "\n"}
IsSpace(lex) == lex \in WhiteSpace

RECURSIVE TrimStart(_)
TrimStart(text) ==
    IF text # <<>> /\ IsSpace(Head(text)) THEN TrimStart(Tail(text)) ELSE text

RECURSIVE TrimEnd(_)
TrimEnd(text) ==
    IF text # <<>> /\ IsSpace(text[Len(text)])
    THEN TrimEnd(SubSeq(text, 1, Len(text) - 1))
    ELSE text

\* String.prototype.trim
Trim(text) == TrimEnd(TrimStart(text))

-----------------------------------------------------------------------------
(* Markup lexemes, sanitizeBody and the express-validator chains *)

ScriptOpen == {"<script>"}
ScriptClose == {"</script>"}
IframeOpen == {"<iframe>"}
IframeClose == {"</iframe>"}
\* tags that carry an event-handler attribute
HandlerTags == {"<img src=x onerror=alert(1)>"}
PlainTags == {"<b>", "</b>"}
HtmlTags == ScriptOpen \cup ScriptClose \cup IframeOpen \cup IframeClose
            \cup HandlerTags \cup PlainTags
JsUri == {"javascript:"}
HandlerText == {"onclick="}

\* sanitize-html escapes the markup characters it keeps as text.
EscapeHtml(lex) ==
    CASE lex = "&" -> "&amp;"
      [] lex = "<" -> "&lt;"
      [] lex = ">" -> "&gt;"
      [] lex = "\"" -> "&quot;"
      [] OTHER -> lex

RECURSIVE DropThrough(_, _)
\* the text after the first lexeme of `closers` (nothing when there is none)
DropThrough(text, closers) ==
    IF text = <<>> THEN <<>>
    ELSE IF Head(text) \in closers THEN Tail(text)
    ELSE DropThrough(Tail(text), closers)

RECURSIVE sanitizeHtml(_)
\* sanitizeHtml(input, {allowedTags: []}): every tag is discarded and its
\* text kept, except that script content is discarded with the tag; text is
\* escaped.
sanitizeHtml(text) ==
    IF text = <<>> THEN <<>>
    ELSE LET lex == Head(text)
         IN IF lex \in ScriptOpen THEN sanitizeHtml(DropThrough(Tail(text), ScriptClose))
            ELSE IF lex \in HtmlTags THEN sanitizeHtml(Tail(text))
            ELSE <<EscapeHtml(lex)>> \o sanitizeHtml(Tail(text))

RECURSIVE xss(_)
\* xss(text): angle brackets that are left are escaped.
xss(text) ==
    IF text = <<>> THEN <<>>
    ELSE LET lex == Head(text)
         IN (IF lex \in HtmlTags \/ lex \in {"<", ">"}
             THEN <<IF lex = ">" THEN "&gt;" ELSE "&lt;">>
             ELSE <<lex>>) \o xss(Tail(text))

\* sanitizeInput on a string
sanitizeInput(text) == xss(sanitizeHtml(text))

Contains(text, set) == \E i \in 1..Len(text) : text[i] \in set

\* an opener followed, later, by its closer
ContainsPair(text, openers, closers) ==
    \E i \in 1..Len(text) : \E j \in (i + 1)..Len(text) :
        text[i] \in openers /\ text[j] \in closers

\* the xssPatterns of validateTask and validateTextProcessing
MatchesXssPattern(text) ==
    \/ ContainsPair(text, ScriptOpen, ScriptClose)
    \/ Contains(text, JsUri)
    \/ Contains(text, HandlerText \cup HandlerTags)
    \/ ContainsPair(text, IframeOpen, IframeClose)

\* /<[^>]*>/
MatchesHtmlTag(text) ==
    \/ Contains(text, HtmlTags)
    \/ ContainsPair(text, {"<"}, {">"})

\* express-validator reads a missing field as the empty string.
FieldText(v) == IF v.t = "string" THEN v.v ELSE <<>>

MAX_TASK_LENGTH == 8192

\* body('task').trim().isLength({min: 1, max: 8192}).custom(...): the list of
\* error messages (empty when the field is valid).
TaskErrors(value) ==
    LET text == Trim(FieldText(value))
    IN (IF Length(text) < 1 \/ Length(text) > MAX_TASK_LENGTH
        THEN <<"Task must be between 1 and 8192 characters">> ELSE <<>>)
       \o (IF MatchesXssPattern(text)
           THEN <<"Task contains potentially malicious content">>
           ELSE IF MatchesHtmlTag(text)
                THEN <<"Task contains HTML tags which are not allowed">>
                ELSE <<>>)

MAX_TEXT_LENGTH == 50000

\* body('text').trim().isLength({min: 1, max: 50000}).custom(...)
TextErrors(value) ==
    LET text == Trim(FieldText(value))
    IN (IF Length(text) < 1 \/ Length(text) > MAX_TEXT_LENGTH
        THEN <<"Text must be between 1 and 50000 characters">> ELSE <<>>)
       \o (IF MatchesXssPattern(text)
           THEN <<"Text contains potentially malicious content">> ELSE <<>>)

-----------------------------------------------------------------------------
(* Action-item extraction: the regular-expression fallback and the parsing  *)
(* of the generative reply (app.js and utils/geminiHelper.js)               *)

Terminators == {".", "!", "?"}

\* toLowerCase on the lexemes of the model's vocabulary
Lower(lex) ==
    CASE lex = "I" -> "i"
      [] lex = "TODO" -> "todo"
      [] lex = "Fix" -> "fix"
      [] lex = "Bob" -> "bob"
      [] lex = "Nothing" -> "nothing"
      [] lex = "The" -> "the"
      [] lex = "Service" -> "service"
      [] lex = "Unavailable" -> "unavailable"
      [] lex = "API" -> "api"
      [] lex = "John" -> "john"
      [] lex = "Sarah" -> "sarah"
      [] lex = "Friday" -> "friday"
      [] OTHER -> lex

LowerText(text) == [k \in 1..Len(text) |-> Lower(text[k])]

\* A trigger is the words a pattern opens with (separated by \s+), followed
\* by ':' and \s* when `colon`, by \s+ otherwise; then comes the capture
\* ([^.!?]+[.!?]).
Trigger(words, colon) == [words |-> words, colon |-> colon]

Verbs == {"review", "check", "update", "send", "schedule", "call", "email"}

\* /\bI\s+(?:will|'ll)\s+([^.!?]+[.!?])/gi
PatternWill == {Trigger(<<"i", "will">>, FALSE), Trigger(<<"i", "'ll">>, FALSE)}
\* /\bI\s+(?:need\s+to|have\s+to)\s+([^.!?]+[.!?])/gi
PatternNeedTo == {Trigger(<<"i", "need", "to">>, FALSE), Trigger(<<"i", "have", "to">>, FALSE)}
\* /(?:action\s+item|todo):\s*([^.!?]+[.!?])/gi
PatternTodo == {Trigger(<<"action", "item">>, TRUE), Trigger(<<"todo">>, TRUE)}
\* /next\s+steps?:\s*([^.!?]+[.!?])/gi
PatternNextSteps == {Trigger(<<"next", "step">>, TRUE), Trigger(<<"next", "steps">>, TRUE)}
\* /follow\s+up:\s*([^.!?]+[.!?])/gi
PatternFollowUp == {Trigger(<<"follow", "up">>, TRUE)}
\* /\b(?:we\s+need\s+to|we\s+should)\s+([^.!?]+[.!?])/gi
PatternWeShould == {Trigger(<<"we", "need", "to">>, FALSE), Trigger(<<"we", "should">>, FALSE)}
\* /\b(?:please\s+)?(?:review|check|update|send|schedule|call|email)\s+([^.!?]+[.!?])/gi
PatternVerb ==
    {Trigger(<<"please", v>>, FALSE) : v \in Verbs} \cup {Trigger(<<v>>, FALSE) : v \in Verbs}

\* the patterns of extractActionItemsFallback in app.js
AppPatterns ==
    <<PatternWill, PatternNeedTo, PatternTodo, PatternNextSteps, PatternFollowUp>>
\* the patterns of GeminiHelper.extractActionItemsFallback
HelperPatterns ==
    <<PatternWill, PatternNeedTo, PatternTodo, PatternNextSteps, PatternFollowUp,
      PatternWeShould, PatternVerb>>

RECURSIVE WordsAt(_, _, _)
\* the position after `words` when they stand at i (case-insensitively, white
\* space between them), 0 when they do not
WordsAt(text, i, words) ==
    IF i > Len(text) \/ Lower(text[i]) # Head(words) THEN 0
    ELSE IF Len(words) = 1 THEN i + 1
    ELSE IF i + 1 <= Len(text) /\ IsSpace(text[i + 1])
         THEN WordsAt(text, i + 2, Tail(words))
         ELSE 0

\* where the capture of a trigger standing at i starts, 0 when the trigger
\* does not stand at i
CaptureStart(text, i, trigger) ==
    LET p == WordsAt(text, i, trigger.words)
    IN IF p = 0 \/ p > Len(text) THEN 0
       ELSE IF trigger.colon
            THEN IF text[p] # ":" THEN 0
                 ELSE IF p + 1 <= Len(text) /\ IsSpace(text[p + 1]) THEN p + 2 ELSE p + 1
            ELSE IF IsSpace(text[p]) THEN p + 1 ELSE 0

RECURSIVE FirstTerminator(_, _)
\* the position of the first '.', '!' or '?' at or after c, 0 when none
FirstTerminator(text, c) ==
    IF c > Len(text) THEN 0
    ELSE IF text[c] \in Terminators THEN c
    ELSE FirstTerminator(text, c + 1)

\* where the capture ends: [^.!?]+ needs one lexeme before the terminator
CaptureEnd(text, i, trigger) ==
    LET c == CaptureStart(text, i, trigger)
        e == IF c = 0 THEN 0 ELSE FirstTerminator(text, c)
    IN IF e > c THEN e ELSE 0

\* the capture [c, e] of the alternative of `pattern` that matches at i,
\* e = 0 when none does
MatchAt(text, i, pattern) ==
    LET hit == {m \in {[c |-> CaptureStart(text, i, tr), e |-> CaptureEnd(text, i, tr)] :
                          tr \in pattern} : m.e > 0}
    IN IF hit = {} THEN [c |-> 0, e |-> 0] ELSE CHOOSE m \in hit : TRUE

RECURSIVE Matches(_, _, _)
\* text.match(pattern) with the g flag, each match reduced to its capture:
\* the matches are taken from left to right and do not overlap
Matches(text, i, pattern) ==
    IF i > Len(text) THEN <<>>
    ELSE CHOOSE found \in
            { IF m.e = 0 THEN Matches(text, i + 1, pattern)
              ELSE <<SubSeq(text, m.c, m.e)>> \o Matches(text, m.e + 1, pattern) :
                m \in {MatchAt(text, i, pattern)} } : TRUE

RECURSIVE AllMatches(_, _)
\* patterns.forEach: the captures of every pattern, pattern by pattern
AllMatches(text, patterns) ==
    IF patterns = <<>> THEN <<>>
    ELSE Matches(text, 1, Head(patterns)) \o AllMatches(text, Tail(patterns))

RECURSIVE StripLeading(_)
StripLeading(text) ==
    IF text # <<>> /\ Head(text) \in Terminators THEN StripLeading(Tail(text)) ELSE text

RECURSIVE StripTrailing(_)
StripTrailing(text) ==
    IF text # <<>> /\ text[Len(text)] \in Terminators
    THEN StripTrailing(SubSeq(text, 1, Len(text) - 1))
    ELSE text

\* cleanItem.trim().replace(/^[.!?]+/, '').replace(/[.!?]+$/, '')
CleanItem(capture) == StripTrailing(StripLeading(Trim(capture)))

MinItemLength == 5
MaxItemLength == 300

\* (a variant with inclusive bounds)
LengthKeptInclusive(text) ==
    Length(text) >= MinItemLength /\ Length(text) <= MaxItemLength
\* length > 5 && length < 300
LengthKept(text) == Length(text) > MinItemLength /\ Length(text) < MaxItemLength

\* an action item as returned to the client
Candidate(task, assignee, assigneeReason, deadline, deadlineText) ==
    [t |-> "object", task |-> task, assignee |-> assignee,
     assigneeReason |-> assigneeReason, deadline |-> deadline,
     deadlineText |-> deadlineText]

\* the k-th smallest member of a set of positions
Nth(positions, k) ==
    CHOOSE i \in positions : Cardinality({j \in positions : j < i}) = k - 1

\* the first occurrence of each task; `fold` compares the tasks in lower case
Unique(tasks, fold) ==
    LET key == [k \in 1..Len(tasks) |-> IF fold THEN LowerText(tasks[k]) ELSE tasks[k]]
        first == {k \in 1..Len(tasks) : \A j \in 1..(k - 1) : key[j] # key[k]}
    IN [k \in 1..Cardinality(first) |-> tasks[Nth(first, k)]]

\* the tasks of the fallback of app.js: captures cleaned, filtered by length
\* and deduplicated in lower case
AppFallbackTasks(captures) ==
    Unique(SelectSeq([k \in 1..Len(captures) |-> CleanItem(captures[k])], LengthKept),
           TRUE)

\* extractActionItemsFallback of app.js
extractActionItemsFallback(text) ==
    CHOOSE items \in
        { [k \in 1..Len(tasks) |-> Candidate(Str(tasks[k]), Undef, Undef, Null, Null)] :
            tasks \in {AppFallbackTasks(AllMatches(text, AppPatterns))} } : TRUE

\* the tasks of the fallback of GeminiHelper: captures trimmed, filtered by
\* length and deduplicated as they are
HelperFallbackTasks(captures) ==
    Unique(SelectSeq([k \in 1..Len(captures) |-> Trim(captures[k])], LengthKept),
           FALSE)

\* GeminiHelper.extractActionItemsFallback
HelperFallback(text) ==
    CHOOSE items \in
        { [k \in 1..Len(tasks) |->
              Candidate(Str(tasks[k]), Str(<<"Unassigned">>),
                        Str(<<"regex fallback - no attendee information available">>),
                        Null, Null)] :
            tasks \in {HelperFallbackTasks(AllMatches(text, HelperPatterns))} } : TRUE

\* The reply of the generative service: a body, possibly inside ```json fences.
GeminiReply(fenced, body) == [fenced |-> fenced, body |-> body]

\* geminiResponse.trim().replace(/^```json\s*/, '').replace(/\s*```$/, '')
CleanedText(reply) == reply.body

\* typeof item === 'object' (null apart)
IsObject(item) == item.t \in {"object", "array"}

\* the filter callback: TRUE for the items kept
KeepsItem(item) ==
    /\ IsObject(item)
    /\ Truthy(Prop(item, "task"))
    /\ LengthKept(Trim(Prop(item, "task").v))

\* item.task.trim() on a task that is truthy but no string throws
FilterThrows(items) ==
    \E k \in 1..Len(items) :
        /\ IsObject(items[k])
        /\ Truthy(Prop(items[k], "task"))
        /\ Prop(items[k], "task").t # "string"

\* the map callback of app.js
AppItem(item) ==
    Candidate(Str(Trim(item.task.v)), Undef, Undef,
              OrElse(item.deadline, Null), OrElse(item.deadlineText, Null))

\* the map callback of GeminiHelper.parseGeminiResponse
HelperItem(item) ==
    Candidate(Str(Trim(item.task.v)),
              OrElse(item.assignee, Str(<<"Unassigned">>)),
              OrElse(item.assigneeReason, Str(<<"no clear assignee mentioned">>)),
              OrElse(item.deadline, Null), OrElse(item.deadlineText, Null))

\* app.js extractActionItems after the reply arrived: a reply that does not
\* parse goes to the fallback, one that is no array yields nothing
AppParse(reply, text) ==
    LET parsed == JSONParse(CleanedText(reply))
    IN IF ~parsed.ok THEN extractActionItemsFallback(text)
       ELSE IF parsed.value.t # "array" THEN <<>>
       ELSE IF FilterThrows(parsed.value.v) THEN extractActionItemsFallback(text)
       ELSE LET kept == SelectSeq(parsed.value.v, KeepsItem)
            IN [k \in 1..Len(kept) |-> AppItem(kept[k])]

\* GeminiHelper.parseGeminiResponse: every failure yields the empty array
parseGeminiResponse(reply) ==
    LET parsed == JSONParse(CleanedText(reply))
    IN IF ~parsed.ok THEN <<>>
       ELSE IF parsed.value.t # "array" THEN <<>>
       ELSE IF FilterThrows(parsed.value.v) THEN <<>>
       ELSE LET kept == SelectSeq(parsed.value.v, KeepsItem)
            IN [k \in 1..Len(kept) |-> HelperItem(kept[k])]

\* an error thrown by generateContent
ApiError(status, message) == [t |-> "object", status |-> status, message |-> message]

\* (a variant that also retries on 400)
retryableStatusCodesAnd400 == {400, 429, 500, 502, 503, 504}
retryableStatusCodes == {429, 500, 502, 503, 504}
retryableMessages ==
    { <<"overloaded">>, <<"service", " ", "unavailable">>, <<"rate", " ", "limit">>,
      <<"timeout">>, <<"network", " ", "error">>, <<"fetch", " ", "failed">> }

\* errorMessage.includes(msg)
Includes(text, phrase) ==
    \E i \in 1..Len(text) :
        /\ i + Len(phrase) - 1 <= Len(text)
        /\ SubSeq(text, i, i + Len(phrase) - 1) = phrase

\* error.status && retryableStatusCodes.includes(error.status)
StatusRetryable(error) ==
    Truthy(error.status) /\ error.status.t = "number"
    /\ error.status.v \in retryableStatusCodes

\* error.message.toLowerCase() on an error without a message throws
isRetryableErrorThrows(error) ==
    ~StatusRetryable(error) /\ error.message.t # "string"

\* GeminiHelper.isRetryableError (where it does not throw)
isRetryableError(error) ==
    \/ StatusRetryable(error)
    \/ /\ error.message.t = "string"
       /\ \E msg \in retryableMessages : Includes(LowerText(error.message.v), msg)

-----------------------------------------------------------------------------
(* Rate limiters (express-rate-limit as configured in config/security.js) *)

\* the limiters count per client IP: the request under study comes from ip1,
\* ip2 is another client
IPs == {"ip1", "ip2"}
Clients == {"ip1"}
Limiters == {"general", "tasks", "upload"}

GeneralMax == 100
UploadMax == 10
TasksMax == 50

LimitMax(l) ==
    CASE l = "general" -> GeneralMax
      [] l = "upload" -> UploadMax
      [] l = "tasks" -> TasksMax

\* skipSuccessfulRequests
SkipSuccessful(l) == l \in {"tasks", "upload"}

LimitMessage(l) ==
    CASE l = "general" -> "Too many requests from this IP, please try again later."
      [] l = "upload" -> "Too many file uploads, please try again later."
      [] l = "tasks" -> "Too many task operations, please try again later."

Paths == {"/add-task", "/process-text", "/process-transcript", "/confirm-tasks"}

\* the limiter each route mounts first
RouteLimiter(path) == IF path = "/process-transcript" THEN "upload" ELSE "tasks"

\* the middleware of each route, in the order app.js mounts it
RouteChain(path) ==
    CASE path = "/add-task" ->
            <<"limiter", "auth", "csrf", "authorize", "validate", "handler">>
      [] path = "/process-transcript" ->
            <<"limiter", "auth", "csrf", "authorize", "upload", "content", "handler">>
      [] path = "/process-text" ->
            <<"limiter", "auth", "csrf", "authorize", "validate", "handler">>
      [] path = "/confirm-tasks" ->
            <<"limiter", "auth", "authorize", "validate", "handler">>

\* next(): the stage that follows `stage` in the route's chain
NextStage(path, stage) ==
    LET chain == RouteChain(path)
        i == CHOOSE k \in 1..Len(chain) : chain[k] = stage
    IN chain[i + 1]

\* A hit is counted when the limiter runs.
Hit(hs, l, ip) == [hs EXCEPT ![l][ip] = @ + 1]

\* When the response is finished, a limiter that skips successful requests
\* takes its hit back if the status is below 400.
Settle(hs, counted, ip, status) ==
    [l \in Limiters |->
        IF l \in counted /\ SkipSuccessful(l) /\ status < 400
        THEN [hs[l] EXCEPT ![ip] = @ - 1]
        ELSE hs[l]]

-----------------------------------------------------------------------------
(* Responses *)

\* `by` is the middleware or handler step that wrote the response, `created`
\* the number the message states, `errors` the per-field messages, `tasks`
\* the candidates returned, `cookie` what Set-Cookie does to userTokens.
\* the response headers the model follows; "" stands for a header that is
\* not set
HeaderNames ==
    {"X-Frame-Options", "X-Content-Type-Options", "X-XSS-Protection",
     "Referrer-Policy", "Permissions-Policy", "X-Powered-By"}

\* a response as express creates it
ExpressHeaders == [n \in HeaderNames |-> IF n = "X-Powered-By" THEN "Express" ELSE ""]

\* what the xssFilter of helmet writes: '1; mode=block' up to helmet 3, '0'
\* since helmet 4
XssFilterValues == {"1; mode=block", "0"}

\* helmet(securityHeaders) with frameguard deny, noSniff, xssFilter,
\* referrerPolicy strict-origin-when-cross-origin and hidePoweredBy
helmet(headers, xssFilter) ==
    [headers EXCEPT !["X-Frame-Options"] = "DENY",
                    !["X-Content-Type-Options"] = "nosniff",
                    !["X-XSS-Protection"] = xssFilter,
                    !["Referrer-Policy"] = "strict-origin-when-cross-origin",
                    !["X-Powered-By"] = ""]

\* securityHeaders of middleware/security.js (customSecurityHeaders in app.js)
securityHeaders(headers) ==
    [headers EXCEPT !["X-Frame-Options"] = "DENY",
                    !["X-Content-Type-Options"] = "nosniff",
                    !["X-XSS-Protection"] = "1; mode=block",
                    !["Referrer-Policy"] = "strict-origin-when-cross-origin",
                    !["Permissions-Policy"] = "geolocation=(), microphone=(), camera=()",
                    !["X-Powered-By"] = ""]

NoResponse ==
    [sent |-> FALSE, status |-> 0, success |-> FALSE, message |-> "", by |-> "",
     created |-> 0, errors |-> <<>>, tasks |-> <<>>, cookie |-> "kept",
     headers |-> ExpressHeaders]

\* res.status(status).json({success, message}) by the global middleware
Reply(status, success, message) ==
    [NoResponse EXCEPT !.sent = TRUE, !.status = status, !.success = success,
                       !.message = message, !.by = "global"]

-----------------------------------------------------------------------------
(* The authentication gate and its neighbours (middleware/security.js) *)

\* a token bundle as JSON.parse returns it
Bundle(at, rt, exp) ==
    [t |-> "object", access_token |-> at, refresh_token |-> rt,
     expiry_date |-> exp, user_id |-> Undef]

\* req.cookies as a cookie parser builds it
Jar(userTokens, csrfToken) ==
    [t |-> "object", userTokens |-> userTokens, csrfToken |-> csrfToken]

\* req.cookies && req.cookies.<name>
Cookie(cookies, name) == IF Truthy(cookies) THEN cookies[name] ELSE cookies

\* tokens.expiry_date && Date.now() >= tokens.expiry_date
Expired(tokens, t) ==
    LET exp == Prop(tokens, "expiry_date")
    IN Truthy(exp) /\ exp.t = "number" /\ t >= exp.v

Pass(tokens, userId) ==
    [next |-> TRUE, status |-> 0, message |-> "", userTokens |-> tokens,
     userId |-> userId]
Deny(status, message) ==
    [next |-> FALSE, status |-> status, message |-> message, userTokens |-> Undef,
     userId |-> Undef]

\* authenticateUser, reading Date.now() as t
authenticateUser(cookies, t) ==
    LET userTokens == Cookie(cookies, "userTokens")
    IN IF ~Truthy(userTokens)
       THEN Deny(401, "Not authenticated. Please sign in again.")
       ELSE LET parsed == JSONParse(userTokens)
                tokens == parsed.value
            IN IF ~parsed.ok THEN Deny(401, "Invalid authentication tokens")
               \* tokens.access_token on null: the TypeError lands in the outer catch
               ELSE IF PropThrows(tokens) THEN Deny(500, "Authentication error")
               ELSE IF ~Truthy(Prop(tokens, "access_token"))
                    THEN Deny(401, "Invalid authentication tokens")
               ELSE IF Expired(tokens, t)
                    THEN Deny(401, "Authentication expired. Please sign in again.")
               ELSE IF \/ Prop(tokens, "access_token").t # "string"
                       \/ Length(Prop(tokens, "access_token").v) < 10
                    THEN Deny(401, "Invalid authentication tokens")
               ELSE Pass(tokens, OrElse(Prop(tokens, "user_id"), Str(<<"unknown">>)))

\* validateSession: what it attaches to the request, and whether it clears
\* the userTokens cookie
validateSession(cookies, t) ==
    LET userTokens == Cookie(cookies, "userTokens")
        parsed == JSONParse(userTokens)
        tokens == parsed.value
        nothing == [userTokens |-> Undef, userId |-> Undef, clear |-> FALSE]
    IN IF ~Truthy(userTokens) THEN nothing
       ELSE IF ~parsed.ok \/ PropThrows(tokens) \/ Expired(tokens, t)
            THEN [nothing EXCEPT !.clear = TRUE]
       ELSE [userTokens |-> tokens,
             userId |-> OrElse(Prop(tokens, "user_id"), Str(<<"unknown">>)),
             clear |-> FALSE]

\* csrfProtection on a POST: TRUE when the request may go on
csrfProtection(header, bodyCsrf, cookies) ==
    LET csrfToken == OrElse(header, bodyCsrf)
        sessionToken == Cookie(cookies, "csrfToken")
    IN /\ Truthy(csrfToken)
       /\ Truthy(sessionToken)
       /\ csrfToken = sessionToken

\* authorizeResource(resourceType): TRUE when the request may go on
authorizeResource(userId) == Truthy(userId)

-----------------------------------------------------------------------------
(* Request inputs *)

TokenA == Str(<<"ya29.token-A">>)
Refresh == Str(<<"1//refresh-A">>)
\* what a successful OAuth refresh returns
RefreshedToken == Str(<<"ya29.token-A2">>)
RefreshedExpiry == Num(9)

\* values of the userTokens cookie
UserTokensCookies ==
    { Undef,
      NotJson("invalid-json"),
      JsonText("null", Null),
      JsonText("42", Num(42)),
      JsonText("{}", Bundle(Undef, Undef, Undef)),
      JsonText("{access_token:t,expiry_date:1}", Bundle(Str(<<"t">>), Undef, Num(1))),
      JsonText("{access_token:test,expiry_date:9}", Bundle(Str(<<"test">>), Undef, Num(9))),
      JsonText("{access_token:A,refresh_token:R,expiry_date:1}", Bundle(TokenA, Refresh, Num(1))),
      JsonText("{access_token:A,refresh_token:R,expiry_date:2}", Bundle(TokenA, Refresh, Num(2))),
      JsonText("{access_token:A,refresh_token:R,expiry_date:3}", Bundle(TokenA, Refresh, Num(3))),
      JsonText("{access_token:A,expiry_date:3}", Bundle(TokenA, Undef, Num(3))),
      JsonText("{access_token:A,refresh_token:R,expiry_date:9}", Bundle(TokenA, Refresh, Num(9))),
      JsonText("{access_token:A,expiry_date:0}", Bundle(TokenA, Undef, Num(0))) }

\* the X-CSRF-Token header and the csrfToken cookie of a request: header
\* missing, cookie missing, the two different, the two equal
CsrfPairs ==
    { [header |-> Undef, cookie |-> Str(<<"c1">>)],
      [header |-> Str(<<"c1">>), cookie |-> Undef],
      [header |-> Str(<<"c2">>), cookie |-> Str(<<"c1">>)],
      [header |-> Str(<<"c1">>), cookie |-> Str(<<"c1">>)] }
BodyCsrfTokens == {Undef, Str(<<"c1">>)}
BodySizes == {"ok", "over10mb", "over50mb"}

\* req.body.task as submitted to /add-task
AddTaskInputs ==
    { Undef,
      Str(<<>>),
      Str(<<" ">>),
      Str(<<"Buy", " ", "milk">>),
      Str(<<Rep("a", MAX_TASK_LENGTH)>>),
      Str(<<Rep("a", MAX_TASK_LENGTH + 1)>>),
      Str(<<" ", Rep("a", MAX_TASK_LENGTH), " ">>),
      Str(<<"<b>", "Buy", " ", "milk", "</b>">>),
      Str(<<"<script>", "alert(1)", "</script>">>),
      Str(<<"\"", ">", "<script>", "alert(1)", "</script>">>),
      Str(<<"<img src=x onerror=alert(1)>">>),
      Str(<<"javascript:", "alert(1)">>),
      Str(<<"onclick=", "x">>) }

\* what tasklists.list can do: throw, or return data with or without items
TaskListResults ==
    { [ok |-> FALSE, items |-> Undef],
      [ok |-> TRUE, items |-> Undef],
      [ok |-> TRUE, items |-> Array(<<>>)],
      [ok |-> TRUE, items |-> Array(<<[id |-> "list-default", title |-> "My Tasks"]>>)],
      [ok |-> TRUE, items |-> Array(<<[id |-> "list-default", title |-> "Inbox"],
                                      [id |-> "list-other", title |-> "My Tasks"]>>)],
      [ok |-> TRUE, items |-> Array(<<[id |-> "list-other", title |-> "Work"],
                                      [id |-> "list-default", title |-> "Inbox"]>>)] }

-----------------------------------------------------------------------------
(* State *)

NoRequest ==
    [ip |-> "", path |-> "", at |-> 0, bodySize |-> "", rawUserTokens |-> Undef,
     rawCsrf |-> Undef, csrfHeader |-> Undef, bodyCsrf |-> Undef,
     cookies |-> Undef, raw |-> Undef, body |-> Undef, file |-> Undef,
     userTokens |-> Undef, userId |-> Undef, counted |-> {}]

\* no reply of the generative service (yet)
NoError == ApiError(Undef, Undef)
NoReply == GeminiReply(FALSE, NotJson(""))

NoLocals ==
    [credentials |-> Undef, i |-> 0, createdTasks |-> <<>>, list |-> "",
     text |-> Undef, items |-> <<>>, reply |-> NoReply, error |-> NoError]

\* the GeminiHelper run: the calls of generateContent made so far
\* (attempts), the delays waited, the errors caught, the reply received and
\* the value returned
GhIdle ==
    [pc |-> "idle", text |-> <<>>, retryCount |-> 0, attempts |-> 0,
     delays |-> <<>>, errors |-> <<>>, reply |-> NoReply, result |-> <<>>]

\* the requests of SpecConcurrent before they arrive: no OAuth2 client object
\* exists yet and no call has been made
Users == {"alice", "bob"}
NoneInFlight ==
    [reqs |-> [u \in Users |-> [pc |-> "idle", cookie |-> Undef, userTokens |-> Undef,
                                client |-> 0, status |-> 0]],
     clients |-> <<>>,
     calls |-> <<>>]

\* hit counts the limiters can hold when the request arrives: a fresh window,
\* or a window in which the client already used up one of the limits
InitialHits ==
    { [l \in Limiters |-> [ip \in IPs |-> 0]],
      [l \in Limiters |-> [ip \in IPs |->
          IF ip = "ip1" /\ l = "general" THEN GeneralMax ELSE 0]],
      [l \in Limiters |-> [ip \in IPs |->
          IF ip = "ip1" /\ l \in {"general", "tasks"} THEN TasksMax ELSE 0]],
      [l \in Limiters |-> [ip \in IPs |->
          IF ip = "ip1" /\ l \in {"general", "upload"} THEN UploadMax ELSE 0]] }

Init ==
    /\ hits \in InitialHits
    /\ now = 2
    /\ pc = "idle"
    /\ req = NoRequest
    /\ res = NoResponse
    /\ calls = <<>>
    /\ h = NoLocals
    /\ gh = GhIdle
    /\ inflight = NoneInFlight

\* The response is written: res.json(...) ends the request.
Send(reply) ==
    /\ res' = reply
    /\ hits' = Settle(hits, req.counted, req.ip, reply.status)
    /\ pc' = "done"

\* res.status(status).json({success, message}) on the response so far
Answer(status, success, message) ==
    [res EXCEPT !.sent = TRUE, !.status = status, !.success = success,
                !.message = message, !.by = pc]

\* next()
Proceed(stage) ==
    /\ pc' = NextStage(req.path, stage)
    /\ UNCHANGED <<res, hits>>

-----------------------------------------------------------------------------
(* The global middleware of app.js, lines 58-165 *)

\* express.json({limit: '10mb'}) parses the JSON bodies; the multipart body of
\* /process-transcript is left to multer.
JsonBodyTooLarge(path, bodySize) ==
    path # "/process-transcript" /\ bodySize # "ok"

\* validateRequestSize: Content-Length above 50 MB
RequestTooLarge(bodySize) == bodySize = "over50mb"

\* (a variant without the MulterError branch)
handleFilterErrorOnly(error) ==
    IF error \in {"Only PDF files are allowed", "Invalid file extension",
                  "Invalid filename"}
    THEN [status |-> 400, message |-> error]
    ELSE [status |-> 500, message |-> "File upload error"]
\* handleUploadError is the first error middleware: an error that is neither a
\* MulterError nor one of the file filter's messages is answered 500.
handleUploadError(error) ==
    CASE error = "LIMIT_FILE_SIZE" ->
            [status |-> 400, message |-> "File size exceeds 10MB limit"]
      [] error \in {"Only PDF files are allowed", "Invalid file extension",
                    "Invalid filename"} -> [status |-> 400, message |-> error]
      [] OTHER -> [status |-> 500, message |-> "File upload error"]

\* A request arrives and runs through the global middleware.  `parsed` says
\* whether a cookie parser has filled req.cookies.
Receive(ip, path, userTokens, csrfCookie, csrfHeader, bodySize, parsed) ==
    /\ pc = "idle"
    /\ \E xssFilter \in XssFilterValues :
       LET cookies == IF parsed THEN Jar(userTokens, csrfCookie) ELSE Undef
           session == validateSession(cookies, now)
           headers == securityHeaders(helmet(ExpressHeaders, xssFilter))
           arrived == [NoRequest EXCEPT
                         !.ip = ip, !.path = path, !.at = now, !.bodySize = bodySize,
                         !.rawUserTokens = userTokens, !.rawCsrf = csrfCookie,
                         !.csrfHeader = csrfHeader, !.cookies = cookies]
       IN IF JsonBodyTooLarge(path, bodySize)
          THEN /\ req' = arrived
               /\ res' = [Reply(handleUploadError("request entity too large").status,
                               FALSE,
                               handleUploadError("request entity too large").message)
                             EXCEPT !.headers = headers]
               /\ pc' = "done"
               /\ UNCHANGED hits
          ELSE IF RequestTooLarge(bodySize)
          THEN /\ req' = arrived
               /\ res' = [Reply(413, FALSE, "Request entity too large")
                             EXCEPT !.headers = headers]
               /\ pc' = "done"
               /\ UNCHANGED hits
          ELSE IF hits["general"][ip] + 1 > LimitMax("general")
          THEN /\ req' = [arrived EXCEPT !.counted = {"general"}]
               /\ res' = [Reply(429, FALSE, LimitMessage("general"))
                             EXCEPT !.headers = headers]
               /\ hits' = Hit(hits, "general", ip)
               /\ pc' = "done"
          ELSE /\ req' = [arrived EXCEPT !.counted = {"general"},
                                         !.userTokens = session.userTokens,
                                         !.userId = session.userId]
               /\ res' = [NoResponse EXCEPT
                            !.cookie = IF session.clear THEN "cleared" ELSE "kept",
                            !.headers = headers]
               /\ hits' = Hit(hits, "general", ip)
               /\ pc' = "limiter"
    /\ UNCHANGED <<now, calls, h, gh, inflight>>

\* GET /: the route is mounted after helmet and before the other global
\* middleware; res.sendFile answers with public/index.html
ServePage ==
    /\ pc = "idle"
    /\ \E ip \in Clients, xssFilter \in XssFilterValues :
        /\ req' = [NoRequest EXCEPT !.ip = ip, !.path = "/", !.at = now]
        /\ res' = [NoResponse EXCEPT !.sent = TRUE, !.status = 200, !.by = "page",
                                     !.headers = helmet(ExpressHeaders, xssFilter)]
    /\ pc' = "done"
    /\ UNCHANGED <<hits, now, calls, h, gh, inflight>>

\* rateLimitConfig.tasks / rateLimitConfig.upload, first in every route
RouteLimit ==
    /\ pc = "limiter"
    /\ LET l == RouteLimiter(req.path)
           counted == Hit(hits, l, req.ip)
       IN /\ req' = [req EXCEPT !.counted = @ \cup {l}]
          /\ IF counted[l][req.ip] > LimitMax(l)
             THEN /\ res' = Answer(429, FALSE, LimitMessage(l))
                  /\ hits' = counted
                  /\ pc' = "done"
             ELSE /\ hits' = counted
                  /\ pc' = NextStage(req.path, "limiter")
                  /\ UNCHANGED res
    /\ UNCHANGED <<now, calls, h, gh, inflight>>

\* authenticateUser
Authenticate ==
    /\ pc = "auth"
    /\ LET out == authenticateUser(req.cookies, now)
       IN  /\ IF out.next
              THEN /\ req' = [req EXCEPT !.userTokens = out.userTokens,
                                         !.userId = out.userId]
                   /\ Proceed("auth")
              ELSE /\ Send(Answer(out.status, FALSE, out.message))
                   /\ UNCHANGED req
    /\ UNCHANGED <<now, calls, h, gh, inflight>>

\* csrfProtection
Csrf ==
    /\ pc = "csrf"
    /\ \E b \in BodyCsrfTokens :
        \* req.body._csrf is read only when the header is missing; the
        \* multipart body of /process-transcript is not parsed yet
        /\ (Truthy(req.csrfHeader) \/ req.path = "/process-transcript") => b = Undef
        /\ req' = [req EXCEPT !.bodyCsrf = b]
        /\ IF csrfProtection(req.csrfHeader, b, req.cookies)
           THEN Proceed("csrf")
           ELSE Send(Answer(403, FALSE, "CSRF token validation failed"))
    /\ UNCHANGED <<now, calls, h, gh, inflight>>

\* authorizeResource('tasks') / authorizeResource('files')
Authorize ==
    /\ pc = "authorize"
    /\ IF authorizeResource(req.userId)
       THEN Proceed("authorize")
       ELSE Send(Answer(403, FALSE, "Access denied"))
    /\ UNCHANGED <<now, req, calls, h, gh, inflight>>

-----------------------------------------------------------------------------
(* Body validation (middleware/validation.js) *)

\* sanitizeObject, applied by sanitizeBody to req.body before any route runs
sanitizeObject(v) ==
    CASE v.t = "string" -> Str(sanitizeInput(v.v))
      [] v.t = "object" ->
            [v EXCEPT !.task = IF @.t = "string" THEN Str(sanitizeInput(@.v)) ELSE @,
                      !.deadline = IF @.t = "string" THEN Str(sanitizeInput(@.v)) ELSE @]
      [] OTHER -> v

\* handleValidationErrors
ValidationFailed(errors) ==
    [Answer(400, FALSE, "Validation failed") EXCEPT !.errors = errors]

\* validateTask on POST /add-task.  The body is read here for the first time
\* in the request; sanitizeBody has replaced it by its sanitized form.
ValidateTask ==
    /\ pc = "validate"
    /\ req.path = "/add-task"
    /\ \E task \in AddTaskInputs :
        LET clean == sanitizeObject(task)
            errors == TaskErrors(clean)
        IN IF errors # <<>>
           THEN /\ req' = [req EXCEPT !.raw = task]
                /\ Send(ValidationFailed(errors))
           ELSE /\ req' = [req EXCEPT !.raw = task,
                                      !.body = Str(Trim(FieldText(clean)))]
                /\ Proceed("validate")
    /\ UNCHANGED <<now, calls, h, gh, inflight>>

\* an item of the tasks array: {task, deadline}
Item(task, deadline) == [t |-> "object", task |-> task, deadline |-> deadline]

ISO8601Texts == {<<"2024-01-15T17:00:00">>}

\* /^[^<>{}]*$/
NoInvalidCharacters(text) == ~Contains(text, {"<", ">", "{", "}"} \cup HtmlTags)

\* the chain of body('tasks.*.task') on one item
ItemTaskErrors(item) ==
    LET value == Prop(item, "task")
        text == Trim(FieldText(value))
    IN IF value.t = "undefined" THEN <<>>
       ELSE (IF Length(text) < 1 \/ Length(text) > MAX_TASK_LENGTH
             THEN <<"Each task must be between 1 and 8192 characters">> ELSE <<>>)
            \o (IF ~NoInvalidCharacters(text)
                THEN <<"Task contains invalid characters">> ELSE <<>>)

\* the chain of body('tasks.*.deadline') on one item
ItemDeadlineErrors(item) ==
    LET value == Prop(item, "deadline")
    IN IF value.t = "undefined" \/ FieldText(value) \in ISO8601Texts THEN <<>>
       ELSE <<"Deadline must be a valid ISO 8601 date">>

RECURSIVE ItemsErrors(_)
ItemsErrors(items) ==
    IF items = <<>> THEN <<>>
    ELSE ItemTaskErrors(Head(items)) \o ItemDeadlineErrors(Head(items))
         \o ItemsErrors(Tail(items))

MaxConfirmItems == 100

\* validateTaskConfirmation: body('tasks').isArray({min: 1, max: 100}) and the
\* two wildcard chains
ConfirmErrors(tasks) ==
    IF tasks.t # "array" THEN <<"Tasks must be an array with 1-100 items">>
    ELSE (IF Len(tasks.v) < 1 \/ Len(tasks.v) > MaxConfirmItems
          THEN <<"Tasks must be an array with 1-100 items">> ELSE <<>>)
         \o ItemsErrors(tasks.v)

\* .trim() writes the trimmed task back into the item
TrimItem(item) ==
    IF item.t = "object" /\ item.task.t = "string"
    THEN [item EXCEPT !.task = Str(Trim(@.v))]
    ELSE item

ConfirmItems ==
    { Null,
      Str(<<" ">>),
      Str(<<"Call", " ", "Bob">>),
      Item(Str(<<"Email", " ", "Ann">>), Undef),
      Item(Str(<<"Pay", " ", "rent">>), Str(<<"2024-01-15T17:00:00">>)),
      Item(Str(<<"Send", " ", "memo">>), Str(<<"tomorrow">>)),
      Item(Str(<<"Book", " ", "room">>), Null) }

RECURSIVE Batches(_)
\* the arrays of at most n items
Batches(n) ==
    IF n = 0 THEN {<<>>}
    ELSE LET shorter == Batches(n - 1)
         IN shorter \cup {Append(b, item) : b \in {x \in shorter : Len(x) = n - 1},
                                           item \in ConfirmItems}

\* req.body.tasks as submitted to /confirm-tasks
ConfirmInputs == {Undef} \cup {Array(b) : b \in Batches(MaxBatch)}

\* validateTaskConfirmation on POST /confirm-tasks
ValidateConfirm ==
    /\ pc = "validate"
    /\ req.path = "/confirm-tasks"
    /\ \E tasks \in ConfirmInputs :
        LET clean == IF tasks.t = "array"
                     THEN Array([k \in 1..Len(tasks.v) |-> sanitizeObject(tasks.v[k])])
                     ELSE tasks
            errors == ConfirmErrors(clean)
        IN IF errors # <<>>
           THEN /\ req' = [req EXCEPT !.raw = tasks]
                /\ Send(ValidationFailed(errors))
           ELSE /\ req' = [req EXCEPT
                             !.raw = tasks,
                             !.body = Array([k \in 1..Len(clean.v) |-> TrimItem(clean.v[k])])]
                /\ Proceed("validate")
    /\ UNCHANGED <<now, calls, h, gh, inflight>>

-----------------------------------------------------------------------------
(* The handlers of POST /add-task and POST /confirm-tasks (app.js) *)

\* an external call as issued; `ok` turns "ok" or "failed" when it returns
Call(api, auth, arg) == [api |-> api, auth |-> auth, arg |-> arg, ok |-> "pending"]

\* the last call has returned
Returned(cs, outcome) == [cs EXCEPT ![Len(cs)].ok = outcome]

\* (a variant in which both handlers answer 401)
RefreshFailedWith401(path) ==
    Answer(401, FALSE, "Authentication expired. Please sign in again.")
\* the catch of a failed refreshAccessToken: /add-task answers 401,
\* /confirm-tasks answers res.json (200)
RefreshFailed(path) ==
    IF path = "/add-task"
    THEN Answer(401, FALSE, "Authentication expired. Please sign in again.")
    ELSE Answer(200, FALSE, "Authentication expired. Please sign in again.")

\* app.js imports only `logger` from ./config/logger (line 47); the name
\* logTaskOperation that /add-task calls is not defined in the module.
LogTaskOperationDefined == FALSE

\* After the credentials are settled: /add-task awaits tasklists.list,
\* /confirm-tasks enters its loop.
Begin(path, credentials) ==
    IF path = "/add-task"
    THEN /\ calls' = Append(calls, Call("tasklists.list",
                                        Prop(credentials, "access_token"), Undef))
         /\ h' = [h EXCEPT !.credentials = credentials]
         /\ pc' = "list"
    ELSE /\ calls' = calls
         /\ h' = [h EXCEPT !.credentials = credentials, !.i = 1]
         /\ pc' = "loop"

\* The handler starts: setCredentials(req.userTokens) and the expiry check
\* against Date.now().  refreshAccessToken throws before any request is made
\* when the bundle holds no refresh_token.
HandlerStart ==
    /\ pc = "handler"
    /\ req.path \in {"/add-task", "/confirm-tasks"}
    /\ \E t \in now..MaxNow :
        /\ now' = t
        /\ IF Expired(req.userTokens, t)
           THEN IF Truthy(Prop(req.userTokens, "refresh_token"))
                THEN /\ calls' = Append(calls, Call("oauth.refresh",
                                          Prop(req.userTokens, "refresh_token"), Undef))
                     /\ h' = [h EXCEPT !.credentials = req.userTokens]
                     /\ pc' = "refresh"
                     /\ UNCHANGED <<res, hits>>
                ELSE /\ Send(RefreshFailed(req.path))
                     /\ UNCHANGED <<calls, h>>
           ELSE /\ Begin(req.path, req.userTokens)
                /\ UNCHANGED <<res, hits>>
    /\ UNCHANGED <<req, gh, inflight>>

\* the credentials after a successful refresh: tokens.access_token and
\* tokens.expiry_date are replaced (/add-task), setCredentials(credentials)
\* (/confirm-tasks)
FreshCredentials(credentials) ==
    [credentials EXCEPT !.access_token = RefreshedToken,
                        !.expiry_date = RefreshedExpiry]

\* refreshAccessToken returns or throws.
Refreshed ==
    /\ pc = "refresh"
    /\ \E ok \in BOOLEAN :
        IF ok
        THEN /\ LET fresh == FreshCredentials(h.credentials)
                IN IF req.path = "/add-task"
                   THEN /\ calls' = Append(Returned(calls, "ok"),
                               Call("tasklists.list", fresh.access_token, Undef))
                        /\ h' = [h EXCEPT !.credentials = fresh]
                        /\ pc' = "list"
                        /\ res' = [res EXCEPT !.cookie = "refreshed"]
                   ELSE /\ calls' = Returned(calls, "ok")
                        /\ h' = [h EXCEPT !.credentials = fresh, !.i = 1]
                        /\ pc' = "loop"
                        /\ UNCHANGED res
             /\ UNCHANGED hits
        ELSE /\ calls' = Returned(calls, "failed")
             /\ Send(RefreshFailed(req.path))
             /\ UNCHANGED h
    /\ UNCHANGED <<now, req, gh, inflight>>

\* taskList.data.items.find(list => list.title === 'My Tasks') || items[0]
DefaultList(items) ==
    IF \E k \in 1..Len(items) : items[k].title = "My Tasks"
    THEN items[CHOOSE k \in 1..Len(items) :
                 /\ items[k].title = "My Tasks"
                 /\ \A j \in 1..(k - 1) : items[j].title # "My Tasks"]
    ELSE items[1]

\* /add-task: tasklists.list returns (data.items a list, or missing) or throws.
Listed ==
    /\ pc = "list"
    /\ \E result \in TaskListResults :
        LET outcome == result.items.v
        IN
        \* a rejected call, or items.find on undefined: the handler's catch
        IF ~result.ok \/ PropThrows(result.items)
        THEN /\ calls' = Returned(calls, IF result.ok THEN "ok" ELSE "failed")
             /\ Send(Answer(500, FALSE, "Failed to create task"))
             /\ UNCHANGED h
        ELSE IF outcome = <<>>
        THEN /\ calls' = Returned(calls, "ok")
             /\ Send(Answer(500, FALSE, "No task list available"))
             /\ UNCHANGED h
        ELSE /\ calls' = Append(Returned(calls, "ok"),
                    Call("tasks.insert", Prop(h.credentials, "access_token"),
                         [tasklist |-> DefaultList(outcome).id, title |-> req.body.v,
                          due |-> Undef]))
             /\ h' = [h EXCEPT !.list = DefaultList(outcome).id]
             /\ pc' = "insert"
             /\ UNCHANGED <<res, hits>>
    /\ UNCHANGED <<now, req, gh, inflight>>

\* /add-task: tasks.insert returns or throws; after a success the handler logs
\* and calls logTaskOperation before it answers.
Inserted ==
    /\ pc = "insert"
    /\ \E ok \in BOOLEAN :
        /\ calls' = Returned(calls, IF ok THEN "ok" ELSE "failed")
        /\ IF ok /\ LogTaskOperationDefined
           THEN Send(Answer(200, TRUE, "Task created successfully"))
           ELSE Send(Answer(500, FALSE, "Failed to create task"))
    /\ UNCHANGED <<now, req, h, gh, inflight>>

\* new Date(deadline): the ISO string of a parseable date (UTC), Undef when
\* getTime() is NaN
ToISOString(deadline) ==
    IF deadline = <<"2024-01-15T17:00:00">> THEN Str(<<"2024-01-15T17:00:00.000Z">>)
    ELSE Undef

\* the requestBody /confirm-tasks builds for one item
RequestBody(taskText, deadline) ==
    [tasklist |-> "@default", title |-> Trim(taskText.v),
     due |-> IF Truthy(deadline) /\ deadline.t = "string"
             THEN ToISOString(deadline.v) ELSE Undef]

\* typeof taskObj === 'string' ? taskObj : taskObj.task
TaskTextOf(item) == IF item.t = "string" THEN item ELSE Prop(item, "task")
\* typeof taskObj === 'string' ? null : taskObj.deadline
DeadlineOf(item) == IF item.t = "string" THEN Null ELSE Prop(item, "deadline")

\* taskText && taskText.trim()
NonBlank(taskText) ==
    Truthy(taskText) /\ taskText.t = "string" /\ Trim(taskText.v) # <<>>

\* the response after the loop
ConfirmResult(createdTasks) ==
    IF Len(createdTasks) > 0
    THEN [Answer(200, TRUE, "Successfully created N task(s).")
             EXCEPT !.created = Len(createdTasks)]
    ELSE Answer(200, FALSE, "Failed to create any tasks. Please try again.")

\* /confirm-tasks: one turn of `for (const taskObj of tasks)`, up to the next
\* await or to the response.  Reading .task of a null item throws outside the
\* inner try, into the handler's outer catch.
LoopStep ==
    /\ pc = "loop"
    /\ IF h.i > Len(req.body.v)
       THEN /\ Send(ConfirmResult(h.createdTasks))
            /\ UNCHANGED <<calls, h>>
       ELSE LET item == req.body.v[h.i]
            IN IF item.t # "string" /\ PropThrows(item)
               THEN /\ Send(Answer(200, FALSE, "Error creating tasks"))
                    /\ UNCHANGED <<calls, h>>
               ELSE IF NonBlank(TaskTextOf(item))
               THEN /\ calls' = Append(calls,
                           Call("tasks.insert", Prop(h.credentials, "access_token"),
                                RequestBody(TaskTextOf(item), DeadlineOf(item))))
                    /\ pc' = "inserting"
                    /\ UNCHANGED <<h, res, hits>>
               ELSE /\ h' = [h EXCEPT !.i = @ + 1]
                    /\ UNCHANGED <<calls, pc, res, hits>>
    /\ UNCHANGED <<now, req, gh, inflight>>

\* /confirm-tasks: the awaited tasks.insert returns (createdTasks.push) or
\* throws (logged); the loop goes on either way.
InsertDone ==
    /\ pc = "inserting"
    /\ \E ok \in BOOLEAN :
        /\ calls' = Returned(calls, IF ok THEN "ok" ELSE "failed")
        /\ h' = [h EXCEPT !.i = @ + 1,
                          !.createdTasks = IF ok THEN Append(@, TaskTextOf(req.body.v[h.i]).v)
                                           ELSE @]
    /\ pc' = "loop"
    /\ UNCHANGED <<now, req, res, hits, gh, inflight>>

-----------------------------------------------------------------------------
(* POST /process-text and POST /process-transcript (app.js) and the upload  *)
(* gate (middleware/fileUpload.js)                                          *)

TPlain == <<"Nothing", " ", "to", " ", "do", ".">>
TWill == <<"I", " ", "will", " ", "send", " ", "the", " ", "report", ".">>
TTodo == <<"TODO", ":", " ", "Fix", " ", "login", "!", " ",
           "todo", ":", " ", "fix", " ", "login", "!">>
TContraction == <<"I", "'ll", " ", "call", " ", "Bob", " ", "tomorrow", ".">>

\* todo items of 4, 5, 6, 299, 300 and 301 characters
TLengths ==
    <<"todo", ":", " ", Rep("a", MinItemLength - 1), ".", " ",
      "todo", ":", " ", Rep("b", MinItemLength), ".", " ",
      "todo", ":", " ", Rep("c", MinItemLength + 1), ".", " ",
      "todo", ":", " ", Rep("d", MaxItemLength - 1), ".", " ",
      "todo", ":", " ", Rep("e", MaxItemLength), ".", " ",
      "todo", ":", " ", Rep("f", MaxItemLength + 1), ".">>

\* "John: I'll review the budget by Friday. Sarah: I need to schedule a meeting."
TExample ==
    <<"John", ":", " ", "I", "'ll", " ", "review", " ", "the", " ", "budget", " ",
      "by", " ", "Friday", ".", " ",
      "Sarah", ":", " ", "I", " ", "need", " ", "to", " ", "schedule", " ", "a", " ",
      "meeting", ".">>

Transcripts == {TPlain, TWill, TTodo, TContraction, TLengths, TExample}

\* req.body.text as submitted to /process-text
TextInputs ==
    {Undef, Str(<<>>)} \cup {Str(t) : t \in Transcripts}
    \cup { Str(<<Rep("a", MAX_TEXT_LENGTH)>>),
           Str(<<Rep("a", MAX_TEXT_LENGTH + 1)>>),
           Str(<<"<script>", "alert(1)", "</script>">>),
           Str(<<"javascript:", "alert(1)">>) }

\* what generateContent can do: answer with a reply, or throw an error
GeminiReplies ==
    { GeminiReply(TRUE, JsonText("[{task:Review the quarterly budget,deadline:2024-01-15T17:00:00}]",
          Array(<<Candidate(Str(<<"Review", " ", "the", " ", "quarterly", " ", "budget">>),
                            Str(<<"Sarah">>), Undef,
                            Str(<<"2024-01-15T17:00:00">>), Str(<<"by", " ", "Friday">>))>>))),
      GeminiReply(FALSE, JsonText("[Call Bob tomorrow]",
          Array(<<Str(<<"Call", " ", "Bob", " ", "tomorrow">>)>>))),
      GeminiReply(FALSE, JsonText("[{task:Do it},{task:Do this}]",
          Array(<<Candidate(Str(<<"Do", " ", "it">>), Undef, Undef, Null, Null),
                  Candidate(Str(<<"Do", " ", "this">>), Undef, Undef, Null, Null)>>))),
      GeminiReply(FALSE, JsonText("[{task:aaaa},{task:aaaaa},{task:aaaaaa},...]",
          Array(<<Candidate(Str(<<Rep("a", MinItemLength - 1)>>), Undef, Undef, Null, Null),
                  Candidate(Str(<<Rep("b", MinItemLength)>>), Undef, Undef, Null, Null),
                  Candidate(Str(<<Rep("c", MinItemLength + 1)>>), Undef, Undef, Null, Null),
                  Candidate(Str(<<Rep("d", MaxItemLength - 1)>>), Undef, Undef, Null, Null),
                  Candidate(Str(<<Rep("e", MaxItemLength)>>), Undef, Undef, Null, Null),
                  Candidate(Str(<<Rep("f", MaxItemLength + 1)>>), Undef, Undef, Null, Null)>>))),
      GeminiReply(FALSE, JsonText("{tasks:[]}", Candidate(Undef, Undef, Undef, Undef, Undef))),
      GeminiReply(FALSE, NotJson("Here are the action items")) }

GeminiErrors ==
    { ApiError(Num(503), Str(<<"Service", " ", "Unavailable">>)),
      ApiError(Undef, Str(<<"The", " ", "model", " ", "is", " ", "overloaded">>)),
      ApiError(Undef, Str(<<"Service", " ", "Unavailable">>)),
      ApiError(Num(429), Undef),
      ApiError(Num(400), Str(<<"API", " ", "key", " ", "not", " ", "valid">>)),
      ApiError(Num(400), Undef),
      ApiError(Undef, Undef) }

GeminiOutcomes ==
    {[ok |-> TRUE, reply |-> r, error |-> NoError] : r \in GeminiReplies}
    \cup {[ok |-> FALSE, reply |-> NoReply, error |-> e] : e \in GeminiErrors}

\* validateTextProcessing on POST /process-text
ValidateText ==
    /\ pc = "validate"
    /\ req.path = "/process-text"
    /\ \E text \in TextInputs :
        LET clean == sanitizeObject(text)
            errors == TextErrors(clean)
        IN IF errors # <<>>
           THEN /\ req' = [req EXCEPT !.raw = text]
                /\ Send(ValidationFailed(errors))
           ELSE /\ req' = [req EXCEPT !.raw = text,
                                      !.body = Str(Trim(FieldText(clean)))]
                /\ Proceed("validate")
    /\ UNCHANGED <<now, calls, h, gh, inflight>>

\* an uploaded file part
File(mimetype, originalname, sizeMB, content) ==
    [t |-> "object", mimetype |-> mimetype, originalname |-> originalname,
     sizeMB |-> sizeMB, content |-> content, buffer |-> "held"]

MaxFileMB == 10

Extensions == {".pdf", ".PDF", ".txt", ".exe", ".js"}
LowerExt(lex) == IF lex = ".PDF" THEN ".pdf" ELSE lex

\* path.extname(file.originalname).toLowerCase()
ExtName(name) ==
    IF name # <<>> /\ Len(name) > 1 /\ name[Len(name)] \in Extensions
    THEN LowerExt(name[Len(name)]) ELSE ""

ReservedNames == {"CON", "PRN", "AUX", "NUL", "COM1", "LPT1"}
InvalidNameCharacters == {"<", ">", ":", "\"", "|", "?", "*"}
ExecutableExtensions == {".exe", ".js"}

\* the maliciousPatterns of fileFilter
MaliciousName(name) ==
    \/ Contains(name, {".."})
    \/ Contains(name, InvalidNameCharacters)
    \/ name \in {<<r>> : r \in ReservedNames}
    \/ (name # <<>> /\ LowerExt(name[Len(name)]) \in ExecutableExtensions)

\* fileFilter: the message of the error it passes to cb, "" when it accepts.
\* file.size is not known to multer when the filter runs.
fileFilter(file) ==
    IF file.mimetype # "application/pdf" THEN "Only PDF files are allowed"
    ELSE IF ExtName(file.originalname) # ".pdf" THEN "Invalid file extension"
    ELSE IF MaliciousName(file.originalname) THEN "Invalid filename"
    ELSE ""

SuspiciousMarkers ==
    {"/JavaScript", "/JS", "/Launch", "/SubmitForm", "/ImportData", "/RichMedia", "/XFA"}

\* (a variant that runs `every` over the bytes of the buffer)
IsPdfPrefix(content) == content = <<>> \/ Head(content) = "%PDF"
\* the first four bytes are %PDF
IsPdf(content) == content # <<>> /\ Head(content) = "%PDF"

\* validateFileContent: the message of its 400, "" when it calls next()
validateFileContent(file) ==
    IF ~Truthy(file) THEN "No file uploaded"
    ELSE IF ~IsPdf(file.content) THEN "Invalid PDF file content"
    ELSE IF Contains(file.content, SuspiciousMarkers)
         THEN "PDF contains potentially harmful content"
    ELSE ""

\* the multipart body of a request to /process-transcript
Uploads ==
    { Undef,
      File("application/pdf", <<"notes", ".pdf">>, 1, <<"%PDF", "-1.4">>),
      File("text/plain", <<"notes", ".pdf">>, 1, <<"%PDF", "-1.4">>),
      File("application/pdf", <<"notes", ".txt">>, 1, <<"%PDF", "-1.4">>),
      File("application/pdf", <<"..", "/", "notes", ".pdf">>, 1, <<"%PDF", "-1.4">>),
      File("application/pdf", <<"notes", ".pdf">>, MaxFileMB + 1, <<"%PDF", "-1.4">>),
      File("text/plain", <<"notes", ".txt">>, MaxFileMB + 1, <<"not a pdf">>),
      File("application/pdf", <<"notes", ".pdf">>, 1, <<"<htm", "l>">>),
      File("application/pdf", <<"notes", ".pdf">>, 1, <<"%PD">>),
      File("application/pdf", <<"CON", ".pdf">>, 1, <<"%PDF", "-1.4">>),
      File("application/pdf", <<"test", ".exe">>, 1, <<"%PDF", "-1.4">>),
      File("application/pdf", <<"test", "<", "script", ">", ".pdf">>, 1, <<"%PDF", "-1.4">>),
      File("application/pdf", <<"notes", ".pdf">>, 1, <<>>),
      File("application/pdf", <<"notes", ".pdf">>, 1, <<"%PDF", "-1.4", "/JavaScript">>) }

\* cleanupUploads: req.file.buffer = null
cleanupUploads(r) ==
    IF Truthy(r.file) /\ r.file.buffer # "null"
    THEN [r EXCEPT !.file = [@ EXCEPT !.buffer = "null"]]
    ELSE r

\* the request as the handler of `path` leaves it (the finally of
\* /process-transcript)
Cleaned(r) == IF r.path = "/process-transcript" THEN cleanupUploads(r) ELSE r

\* upload.single('transcript'): the file filter, then the size limit while
\* the part is read; an error goes to handleUploadError
Upload ==
    /\ pc = "upload"
    /\ \E file \in Uploads :
        IF ~Truthy(file)
        THEN /\ req' = [req EXCEPT !.file = file]
             /\ Proceed("upload")
        ELSE IF fileFilter(file) # ""
        THEN /\ req' = [req EXCEPT !.raw = file]
             /\ Send(Answer(handleUploadError(fileFilter(file)).status, FALSE,
                            handleUploadError(fileFilter(file)).message))
        ELSE IF file.sizeMB > MaxFileMB
        THEN /\ req' = [req EXCEPT !.raw = file]
             /\ Send(Answer(handleUploadError("LIMIT_FILE_SIZE").status, FALSE,
                            handleUploadError("LIMIT_FILE_SIZE").message))
        ELSE /\ req' = [req EXCEPT !.raw = file, !.file = file]
             /\ Proceed("upload")
    /\ UNCHANGED <<now, calls, h, gh, inflight>>

\* validateFileContent
FileContent ==
    /\ pc = "content"
    /\ IF validateFileContent(req.file) # ""
       THEN Send(Answer(400, FALSE, validateFileContent(req.file)))
       ELSE Proceed("content")
    /\ UNCHANGED <<now, req, calls, h, gh, inflight>>

\* the response of the two extraction routes
ExtractionResult(items) ==
    IF items = <<>>
    THEN Answer(200, TRUE, "processed successfully, but no action items were found.")
    ELSE [Answer(200, TRUE, "Found N potential action items.")
             EXCEPT !.tasks = items, !.created = Len(items)]

\* extractActionItems(text) up to its first await: without GEMINI_API_KEY the
\* fallback answers at once, with it generateContent is called
Extract(text) ==
    \E key \in BOOLEAN :
        IF key
        THEN /\ calls' = Append(IF calls # <<>> THEN Returned(calls, "ok") ELSE calls,
                                Call("generateContent", Undef, text))
             /\ h' = [h EXCEPT !.text = text]
             /\ pc' = "generate"
             /\ UNCHANGED <<res, hits, req>>
        ELSE /\ calls' = IF calls # <<>> THEN Returned(calls, "ok") ELSE calls
             /\ h' = [h EXCEPT !.text = text]
             /\ \E items \in {extractActionItemsFallback(text)} :
                   Send(ExtractionResult(items))
             /\ req' = Cleaned(req)

\* the handler of /process-text
ProcessText ==
    /\ pc = "handler"
    /\ req.path = "/process-text"
    /\ Extract(req.body.v)
    /\ UNCHANGED <<now, gh, inflight>>

\* the handler of /process-transcript: pdfParse(req.file.buffer)
ProcessTranscript ==
    /\ pc = "handler"
    /\ req.path = "/process-transcript"
    /\ calls' = Append(calls, Call("pdfParse", Undef, req.file.originalname))
    /\ pc' = "pdf"
    /\ UNCHANGED <<now, req, res, hits, h, gh, inflight>>

\* pdfParse returns the text of the document or throws
PdfParsed ==
    /\ pc = "pdf"
    /\ \/ \E text \in Transcripts \cup {<<>>} : Extract(text)
       \/ /\ calls' = Returned(calls, "failed")
          /\ Send(Answer(200, FALSE, "Error processing transcript"))
          /\ req' = Cleaned(req)
          /\ UNCHANGED h
    /\ UNCHANGED <<now, gh, inflight>>

\* generateContent returns or throws: the reply is parsed, an error goes to
\* the fallback
Generated ==
    /\ pc = "generate"
    /\ \E outcome \in GeminiOutcomes :
        /\ calls' = Returned(calls, IF outcome.ok THEN "ok" ELSE "failed")
        /\ \E items \in {IF outcome.ok THEN AppParse(outcome.reply, h.text)
                          ELSE extractActionItemsFallback(h.text)} :
              Send(ExtractionResult(items))
        /\ h' = [h EXCEPT !.reply = outcome.reply, !.error = outcome.error]
    /\ req' = Cleaned(req)
    /\ UNCHANGED <<now, gh, inflight>>

Next ==
    \/ \E ip \in Clients, path \in Paths, userTokens \in UserTokensCookies,
          csrf \in CsrfPairs, bodySize \in BodySizes :
            Receive(ip, path, userTokens, csrf.cookie, csrf.header, bodySize, TRUE)
    \/ ServePage
    \/ RouteLimit
    \/ Authenticate
    \/ Csrf
    \/ Authorize
    \/ ValidateTask
    \/ ValidateConfirm
    \/ ValidateText
    \/ Upload
    \/ FileContent
    \/ HandlerStart
    \/ Refreshed
    \/ Listed
    \/ Inserted
    \/ LoopStep
    \/ InsertDone
    \/ ProcessText
    \/ ProcessTranscript
    \/ PdfParsed
    \/ Generated

Spec == Init /\ [][Next]_vars

\* app.js as it mounts its global middleware: nothing parses the Cookie
\* header, so req.cookies is undefined and every route ends at the gate.
NextApp ==
    \/ \E ip \in Clients, path \in Paths, userTokens \in UserTokensCookies,
          csrf \in CsrfPairs, bodySize \in BodySizes :
            Receive(ip, path, userTokens, csrf.cookie, csrf.header, bodySize, FALSE)
    \/ RouteLimit
    \/ Authenticate

SpecApp == Init /\ [][NextApp]_vars

-----------------------------------------------------------------------------
(* GeminiHelper.extractActionItems (utils/geminiHelper.js) *)

maxRetries == 3
retryDelay == 2000

\* (a variant that allows one retry more)
TriesOnceMore(error, retryCount) ==
    isRetryableError(error) /\ retryCount <= maxRetries
\* this.isRetryableError(error) && retryCount < this.maxRetries
ShouldRetry(error, retryCount) ==
    isRetryableError(error) /\ retryCount < maxRetries

\* extractActionItems(text) is called: the first generateContent is issued
GhStart ==
    /\ gh.pc = "idle"
    /\ \E text \in Transcripts :
        gh' = [GhIdle EXCEPT !.pc = "calling", !.text = text, !.attempts = 1]
    /\ UNCHANGED <<hits, now, pc, req, res, calls, h, inflight>>

\* generateContent returns (the reply is parsed) or throws (the catch block:
\* retry after the delay, give up with [], or throw out of isRetryableError)
GhReturn ==
    /\ gh.pc = "calling"
    /\ \E outcome \in GeminiOutcomes :
        gh' = IF outcome.ok
              THEN [gh EXCEPT !.pc = "done", !.reply = outcome.reply,
                              !.result = parseGeminiResponse(outcome.reply)]
              ELSE IF isRetryableErrorThrows(outcome.error)
              THEN [gh EXCEPT !.pc = "rejected", !.errors = Append(@, outcome.error)]
              ELSE IF ShouldRetry(outcome.error, gh.retryCount)
              THEN [gh EXCEPT !.pc = "delay", !.errors = Append(@, outcome.error)]
              ELSE [gh EXCEPT !.pc = "done", !.errors = Append(@, outcome.error),
                              !.result = <<>>]
    /\ UNCHANGED <<hits, now, pc, req, res, calls, h, inflight>>

\* await this.delay(this.retryDelay); return this.extractActionItems(text,
\* retryCount + 1): the next generateContent is issued
GhDelay ==
    /\ gh.pc = "delay"
    /\ gh' = [gh EXCEPT !.pc = "calling", !.delays = Append(@, retryDelay),
                        !.retryCount = @ + 1, !.attempts = @ + 1]
    /\ UNCHANGED <<hits, now, pc, req, res, calls, h, inflight>>

NextGemini == GhStart \/ GhReturn \/ GhDelay

SpecGemini == Init /\ [][NextGemini]_vars

-----------------------------------------------------------------------------
(* POST /add-task for the requests of several users at once: each handler   *)
(* runs up to its next await, then another request may run (app.js)         *)

TokenB == Str(<<"ya29.token-B">>)
RefreshB == Str(<<"1//refresh-B">>)
RefreshedTokenB == Str(<<"ya29.token-B2">>)

\* the userTokens cookie a user's browser holds
CookiesOf(u) ==
    IF u = "alice"
    THEN { JsonText("{access_token:A,refresh_token:R,expiry_date:3}", Bundle(TokenA, Refresh, Num(3))),
           JsonText("{access_token:A,refresh_token:R,expiry_date:9}", Bundle(TokenA, Refresh, Num(9))) }
    ELSE { Undef,
           JsonText("{access_token:B,refresh_token:RB,expiry_date:3}", Bundle(TokenB, RefreshB, Num(3))),
           JsonText("{access_token:B,refresh_token:RB,expiry_date:9}", Bundle(TokenB, RefreshB, Num(9))) }

\* the access token the OAuth server issues for a refresh token
TokenOfRefresh(refresh_token) ==
    IF refresh_token = Refresh THEN RefreshedToken ELSE RefreshedTokenB

\* (a variant with one process-wide client)
getSharedOAuth2Client(clients) == 1
\* getOAuth2Client(): new google.auth.OAuth2(...), a fresh object at each call
getOAuth2Client(clients) == Len(clients) + 1

\* a call issued by the handler of user u, authorised by `auth`
CallOf(u, api, auth) == [user |-> u, api |-> api, auth |-> auth]

\* authenticateUser on the request of user u: req.userTokens = tokens
CArrive(u) ==
    /\ inflight.reqs[u].pc = "idle"
    /\ \E cookie \in CookiesOf(u) :
        \E gate \in {authenticateUser(Jar(cookie, Undef), now)} :
            inflight' = [inflight EXCEPT
                !.reqs[u] = [@ EXCEPT !.cookie = cookie,
                                      !.userTokens = gate.userTokens,
                                      !.pc = IF gate.next THEN "handler" ELSE "done",
                                      !.status = gate.status]]
    /\ UNCHANGED <<hits, now, pc, req, res, calls, h, gh>>

\* the handler up to its first await: getOAuth2Client(), setCredentials(tokens),
\* the expiry check, then refreshAccessToken() or tasklists.list()
CStart(u) ==
    /\ inflight.reqs[u].pc = "handler"
    /\ \E t \in now..MaxNow, c \in {getOAuth2Client(inflight.clients)} :
        LET tokens == inflight.reqs[u].userTokens
            clients == IF c > Len(inflight.clients)
                       THEN Append(inflight.clients, tokens)
                       ELSE [inflight.clients EXCEPT ![c] = tokens]
        IN
        /\ now' = t
        /\ inflight' =
             IF Expired(tokens, t)
             THEN IF Truthy(Prop(clients[c], "refresh_token"))
                  THEN [inflight EXCEPT
                           !.clients = clients,
                           !.calls = Append(@, CallOf(u, "oauth.refresh",
                                                      Prop(clients[c], "refresh_token"))),
                           !.reqs[u] = [@ EXCEPT !.client = c, !.pc = "refresh"]]
                  ELSE [inflight EXCEPT
                           !.clients = clients,
                           !.reqs[u] = [@ EXCEPT !.client = c, !.pc = "done", !.status = 401]]
             ELSE [inflight EXCEPT
                      !.clients = clients,
                      !.calls = Append(@, CallOf(u, "tasklists.list",
                                                 Prop(clients[c], "access_token"))),
                      !.reqs[u] = [@ EXCEPT !.client = c, !.pc = "list"]]
    /\ UNCHANGED <<hits, pc, req, res, calls, h, gh>>

\* refreshAccessToken returns (the client holds the new token, tokens is
\* updated, tasklists.list is awaited) or throws (401)
CRefreshed(u) ==
    /\ inflight.reqs[u].pc = "refresh"
    /\ \E ok \in BOOLEAN :
        LET c == inflight.reqs[u].client
            fresh == [inflight.clients[c] EXCEPT
                         !.access_token = TokenOfRefresh(inflight.clients[c].refresh_token),
                         !.expiry_date = RefreshedExpiry]
        IN inflight' =
             IF ok
             THEN [inflight EXCEPT
                      !.clients[c] = fresh,
                      !.calls = Append(@, CallOf(u, "tasklists.list", fresh.access_token)),
                      !.reqs[u] = [@ EXCEPT !.pc = "list"]]
             ELSE [inflight EXCEPT !.reqs[u] = [@ EXCEPT !.pc = "done", !.status = 401]]
    /\ UNCHANGED <<hits, now, pc, req, res, calls, h, gh>>

\* tasklists.list returns (tasks.insert is awaited) or throws (500)
CListed(u) ==
    /\ inflight.reqs[u].pc = "list"
    /\ \E ok \in BOOLEAN :
        LET c == inflight.reqs[u].client
        IN inflight' =
             IF ok
             THEN [inflight EXCEPT
                      !.calls = Append(@, CallOf(u, "tasks.insert",
                                                 Prop(inflight.clients[c], "access_token"))),
                      !.reqs[u] = [@ EXCEPT !.pc = "insert"]]
             ELSE [inflight EXCEPT !.reqs[u] = [@ EXCEPT !.pc = "done", !.status = 500]]
    /\ UNCHANGED <<hits, now, pc, req, res, calls, h, gh>>

\* tasks.insert returns or throws: the request is answered
CInserted(u) ==
    /\ inflight.reqs[u].pc = "insert"
    /\ \E ok \in BOOLEAN :
        inflight' = [inflight EXCEPT
            !.reqs[u] = [@ EXCEPT !.pc = "done",
                                  !.status = IF ok /\ LogTaskOperationDefined
                                             THEN 200 ELSE 500]]
    /\ UNCHANGED <<hits, now, pc, req, res, calls, h, gh>>

NextConcurrent ==
    \E u \in Users :
        \/ CArrive(u)
        \/ CStart(u)
        \/ CRefreshed(u)
        \/ CListed(u)
        \/ CInserted(u)

SpecConcurrent == Init /\ [][NextConcurrent]_vars

-----------------------------------------------------------------------------
(* Properties *)

TaskApis == {"tasklists.list", "tasks.insert"}

\* authenticateUser has run on the request
GateRan ==
    /\ req.path \in Paths
    /\ pc \notin {"idle", "limiter", "auth"}
    /\ res.by \notin {"global", "limiter"}

\* authenticateUser has let the request through
GatePassed == GateRan /\ res.by # "auth"

\* the gate answered 401 with `message` and nothing ran after it
GateDenied(message) ==
    /\ pc = "done"
    /\ res.by = "auth"
    /\ res.status = 401
    /\ res.message = message
    /\ calls = <<>>

\* expiry_date <= t
ExpiryPassed(tokens, t) ==
    Prop(tokens, "expiry_date").t = "number" /\ Prop(tokens, "expiry_date").v <= t

\* the submitted task is too short, too long, or carries script or markup
BadTask(task) ==
    /\ task.t = "string"
    /\ \/ Length(task.v) < 1
       \/ Length(task.v) > 8192
       \/ MatchesXssPattern(task.v)
       \/ MatchesHtmlTag(task.v)

\* C1: on POST /add-task, once validation has run on a request that got past
\* the limiters, the gate and the CSRF check, a task whose length is outside
\* [1,8192] or that contains script or markup has been answered 400
\* 'Validation failed' and no tasklists.list or tasks.insert call was made.
C1_BadTaskRejected ==
    (/\ req.path = "/add-task"
     /\ pc \notin {"idle", "limiter", "auth", "csrf", "authorize", "validate"}
     /\ res.by \notin {"global", "limiter", "auth", "csrf", "authorize"}
     /\ BadTask(req.raw))
    => /\ pc = "done"
       /\ res.status = 400
       /\ res.message = "Validation failed"
       /\ \A k \in 1..Len(calls) : calls[k].api \notin TaskApis

\* C2: once the gate has run, a request whose userTokens cookie is absent, is
\* not JSON, has no access_token or has expiry_date <= now was answered 401
\* with the message of the first of these that holds, and nothing ran after
\* the gate.
C2_GateRejects ==
    GateRan =>
        IF ~Truthy(req.rawUserTokens)
        THEN GateDenied("Not authenticated. Please sign in again.")
        ELSE IF ~JSONParse(req.rawUserTokens).ok
        THEN GateDenied("Invalid authentication tokens")
        ELSE IF ~Truthy(Prop(JSONParse(req.rawUserTokens).value, "access_token"))
        THEN GateDenied("Invalid authentication tokens")
        ELSE IF ExpiryPassed(JSONParse(req.rawUserTokens).value, req.at)
        THEN GateDenied("Authentication expired. Please sign in again.")
        ELSE TRUE

\* C3: on each of the four POST endpoints, an authenticated request whose
\* X-CSRF-Token header is missing or differs from the csrfToken cookie is
\* answered 403 'CSRF token validation failed' right after the gate, and no
\* external call is made for it.
C3_CsrfRejects ==
    (/\ GatePassed
     /\ pc # "csrf"
     /\ ~Truthy(req.csrfHeader) \/ req.csrfHeader # req.rawCsrf)
    => /\ pc = "done"
       /\ res.by = "csrf"
       /\ res.status = 403
       /\ res.message = "CSRF token validation failed"
       /\ calls = <<>>

\* the request ended rejected: rate-limited, unauthenticated or expired,
\* CSRF-failed, validation-failed or upload-rejected
Rejected == pc = "done" /\ res.status \in {429, 401, 403, 400}

\* C4 as stated: no external call was issued before any rejection.
C4_NoCallBeforeRejection == Rejected => calls = <<>>

\* C4 (amended): a rejected request issued no external call, except that the 401
\* the /add-task handler sends after a failed token refresh is preceded by
\* that one OAuth refresh call and by nothing else.
C4_NoCallBeforeRejectionButRefresh ==
    Rejected =>
        \/ calls = <<>>
        \/ /\ req.path = "/add-task"
           /\ res.by = "refresh"
           /\ res.status = 401
           /\ Len(calls) = 1
           /\ calls[1].api = "oauth.refresh"
           /\ calls[1].ok = "failed"

\* the /add-task handler answered 401 after its OAuth refresh failed
C4_RefreshFailedSeen ==
    /\ Rejected
    /\ req.path = "/add-task"
    /\ res.by = "refresh"
    /\ calls # <<>>

\* the number of remote insertions that succeeded in the request
Succeeded ==
    Cardinality({k \in 1..Len(calls) :
                    calls[k].api = "tasks.insert" /\ calls[k].ok = "ok"})

\* the /confirm-tasks handler processed the batch and answered
BatchAnswered ==
    /\ pc = "done"
    /\ req.path = "/confirm-tasks"
    /\ res.by = "loop"

\* C5: the response to a processed batch is success:true exactly when at
\* least one remote insertion succeeded, and then its message states the
\* number of insertions that succeeded.
C5_SuccessIffCreated ==
    BatchAnswered =>
        /\ res.success <=> Succeeded >= 1
        /\ res.success => res.created = Succeeded

\* the text of an input item, Undef when it has none
TextOfItem(item) ==
    IF item.t = "string" THEN item
    ELSE IF item.t = "object" THEN item.task
    ELSE Undef

HasText(item) == NonBlank(TextOfItem(item))
IsInsert(call) == call.api = "tasks.insert"

\* C6: the insert calls are issued one at a time, and once the batch is
\* answered there was exactly one insert call for each item whose trimmed
\* text is non-empty, in input order, and none for any other item.
C6_OneInsertPerItem ==
    /\ \A k \in 1..(Len(calls) - 1) : calls[k].ok # "pending"
    /\ BatchAnswered =>
        LET inserts == SelectSeq(calls, IsInsert)
            items == SelectSeq(req.body.v, HasText)
        IN /\ Len(inserts) = Len(items)
           /\ \A k \in 1..Len(inserts) :
                inserts[k].arg.title = Trim(TextOfItem(items[k]).v)

\* every call of the run failed with a retryable error
AllFailedRetryably ==
    /\ gh.pc = "done"
    /\ Len(gh.errors) = gh.attempts
    /\ \A k \in 1..Len(gh.errors) : isRetryableError(gh.errors[k])

\* C7: GeminiHelper.extractActionItems never makes more than 4 calls, waits
\* 2000 ms before each call after the first, and makes exactly 4 calls when
\* every call fails with a retryable error.
C7_FourCalls ==
    /\ gh.attempts <= 4
    /\ gh.delays = [k \in 1..(gh.attempts - 1) |-> 2000]
    /\ AllFailedRetryably => gh.attempts = 4 /\ gh.delays = <<2000, 2000, 2000>>

\* a run in which all four calls failed with a retryable error
C7_RetriesExhausted == AllFailedRetryably /\ gh.attempts = 4

\* C8: when the run ends after a failed call (a non-retryable error, or the
\* retries exhausted), its result is the regex fallback of the transcript.
C8_FailureFallsBack ==
    (/\ gh.pc = "done"
     /\ gh.errors # <<>>
     /\ Len(gh.errors) = gh.attempts)
    => gh.result = HelperFallback(gh.text)

\* C9: extractActionItems never rejects, whatever generateContent returns or
\* throws.
C9_NeverRejects == gh.pc # "rejected"

\* the cookie holds a well-formed bundle with a refresh_token whose
\* expiry_date <= now when the request arrives
ExpiredOnArrival ==
    /\ Truthy(req.rawUserTokens)
    /\ JSONParse(req.rawUserTokens).ok
    /\ Prop(JSONParse(req.rawUserTokens).value, "access_token") = TokenA
    /\ Truthy(Prop(JSONParse(req.rawUserTokens).value, "refresh_token"))
    /\ ExpiryPassed(JSONParse(req.rawUserTokens).value, req.at)

\* C10: a request to /add-task or /confirm-tasks that arrives with a bundle
\* whose expiry_date <= now, and is not turned away by the limiter, the CSRF
\* check, the authorization or the validation, has an OAuth refresh as its
\* first external call.
C10_ExpiredIsRefreshed ==
    (/\ req.path \in {"/add-task", "/confirm-tasks"}
     /\ ExpiredOnArrival
     /\ pc = "done"
     /\ res.by \notin {"global", "limiter", "csrf", "authorize", "validate"})
    => /\ calls # <<>>
       /\ calls[1].api = "oauth.refresh"

\* the external calls that decode or extract
DecodeApis == {"pdfParse", "generateContent"}

\* a file part was submitted to /process-transcript and the upload and
\* content stages are over for it
UploadSettled ==
    /\ req.path = "/process-transcript"
    /\ Truthy(req.raw)
    /\ pc \notin {"upload", "content"}

UnsafeName(name) ==
    \/ \E k \in 1..Len(name) : name[k] \in {"..", "<", ">"}
    \/ name # <<>> /\ name[1] \in {"CON", "PRN", "AUX", "NUL", "COM1", "LPT1"}
                   /\ Len(name) <= 2
    \/ name # <<>> /\ name[Len(name)] \in {".exe", ".bat", ".js"}

\* C12: once the upload and content stages are over, an upload with such a
\* filename was answered 400 with the message 'Invalid filename', and no PDF
\* decoding or extraction call was made for it.
C12_UnsafeNameRejected ==
    (UploadSettled /\ UnsafeName(req.raw.originalname))
    => /\ pc = "done"
       /\ res.status = 400
       /\ res.message = "Invalid filename"
       /\ \A k \in 1..Len(calls) : calls[k].api \notin DecodeApis

\* the answer to a file over the size limit
TooLargeAnswered ==
    /\ pc = "done"
    /\ res.status = 400
    /\ res.message = "File size exceeds 10MB limit"
    /\ \A k \in 1..Len(calls) : calls[k].api \notin DecodeApis

\* C13: once the upload and content stages are over, an upload whose file is
\* larger than 10 MB was answered 400 'File size exceeds 10MB limit', and
\* neither the PDF decoder nor the extractor was called for it.
C13_LargeFileRejected ==
    (UploadSettled /\ req.raw.sizeMB > 10) => TooLargeAnswered

\* C13 (amended): the same for the uploads over 10 MB that pass the file
\* filter (declared application/pdf, extension .pdf, no malicious filename).
C13_LargeAcceptedFileRejected ==
    (UploadSettled /\ req.raw.sizeMB > 10 /\ fileFilter(req.raw) = "")
    => TooLargeAnswered

\* an 11 MB file that the filter accepts was turned away by the size limit
C13_LargePdfSeen ==
    /\ UploadSettled
    /\ req.raw.sizeMB = 11
    /\ req.raw.mimetype = "application/pdf"
    /\ res.by = "upload"
    /\ res.message = "File size exceeds 10MB limit"

\* C14: once a /process-transcript request that carried a file is answered
\* (processed, failed in decoding, or rejected by the content checks), the
\* buffer of the file has been released.
C14_BufferReleased ==
    (/\ req.path = "/process-transcript"
     /\ pc = "done"
     /\ Truthy(req.file))
    => req.file.buffer = "null"

\* C15: every served request counts against the limit of its kind whatever
\* its outcome (a count is never taken back), a client that has used up the
\* limit of a route is answered 429 by the route's limiter, and a request
\* changes no count of another client.
C15_EveryRequestCounts ==
    [][/\ \A l \in Limiters : \A ip \in IPs : hits'[l][ip] >= hits[l][ip]
       /\ \A l \in Limiters : \A ip \in IPs \ {req'.ip} : hits'[l][ip] = hits[l][ip]
       /\ (pc = "limiter" /\ hits[RouteLimiter(req.path)][req.ip]
                                >= LimitMax(RouteLimiter(req.path)))
              => (pc' = "done" /\ res'.status = 429)]_vars

\* C16: a request whose body is larger than the allowed request size (50 MB)
\* is answered 413 'Request entity too large', and no external call is made
\* for it.
C16_TooLargeIs413 ==
    (pc # "idle" /\ req.bodySize = "over50mb")
    => /\ pc = "done"
       /\ res.status = 413
       /\ res.message = "Request entity too large"
       /\ calls = <<>>

\* C17: whatever the userTokens cookie holds, an answer of the gate is a 401
\* with one of the gate's messages, never a 5xx.
C17_GateAnswers401 ==
    (pc = "done" /\ res.by = "auth")
    => /\ res.status = 401
       /\ res.message \in {"Not authenticated. Please sign in again.",
                           "Invalid authentication tokens",
                           "Authentication expired. Please sign in again."}

\* C18: when the reply of a GeminiHelper run is a JSON array, every plain
\* string item whose trimmed length is within the candidate bound is in the
\* result as {task: the trimmed string, assignee: 'Unassigned', deadline:
\* null, deadlineText: null}.
C18_LegacyStringsKept ==
    \A parsed \in {JSONParse(CleanedText(gh.reply))} :
        (gh.pc = "done" /\ parsed.ok /\ parsed.value.t = "array")
        => \A k \in 1..Len(parsed.value.v) :
              (/\ parsed.value.v[k].t = "string"
               /\ Length(Trim(parsed.value.v[k].v)) > 5
               /\ Length(Trim(parsed.value.v[k].v)) < 300)
              => \E j \in 1..Len(gh.result) :
                    /\ gh.result[j].task = Str(Trim(parsed.value.v[k].v))
                    /\ gh.result[j].assignee = Str(<<"Unassigned">>)
                    /\ gh.result[j].deadline = Null
                    /\ gh.result[j].deadlineText = Null

\* one of the two extraction routes answered with its candidates
Extracted ==
    /\ pc = "done"
    /\ req.path \in {"/process-text", "/process-transcript"}
    /\ res.by \in {"handler", "pdf", "generate"}
    /\ res.success

\* the candidates come from the reply of the generative service
FromModel ==
    /\ Extracted
    /\ JSONParse(CleanedText(h.reply)).ok
    /\ JSONParse(CleanedText(h.reply)).value.t = "array"
    /\ ~FilterThrows(JSONParse(CleanedText(h.reply)).value.v)

\* the candidates come from the regex fallback
FromFallback ==
    /\ Extracted
    /\ \/ ~JSONParse(CleanedText(h.reply)).ok
       \/ /\ JSONParse(CleanedText(h.reply)).value.t = "array"
          /\ FilterThrows(JSONParse(CleanedText(h.reply)).value.v)

\* the items of the reply that are objects with a text for task
ReplyTexts ==
    {Trim(item.task.v) :
        item \in {i \in {JSONParse(CleanedText(h.reply)).value.v[k] :
                            k \in 1..Len(JSONParse(CleanedText(h.reply)).value.v)} :
                     i.t = "object" /\ i.task.t = "string"}}

\* the cleaned captures of the fallback patterns in the transcript
FallbackTexts ==
    {CleanItem(c) : c \in {AllMatches(h.text, AppPatterns)[k] :
                              k \in 1..Len(AllMatches(h.text, AppPatterns))}}

\* the answer holds a candidate with this task text, letter case apart
Kept(text) ==
    \E j \in 1..Len(res.tasks) : LowerText(res.tasks[j].task.v) = LowerText(text)

\* C19: a candidate is kept exactly when its trimmed task text has between 5
\* and 300 characters inclusive, on the model path and on the fallback.
C19_KeptIffWithin5And300 ==
    /\ FromModel => \A text \in ReplyTexts : Kept(text) <=> Length(text) \in 5..300
    /\ FromFallback => \A text \in FallbackTexts : Kept(text) <=> Length(text) \in 5..300

\* C19 (amended): a candidate is kept exactly when its trimmed task text has
\* between 6 and 299 characters inclusive, on the model path and on the
\* fallback.
C19_KeptIffWithin6And299 ==
    /\ FromModel => \A text \in ReplyTexts : Kept(text) <=> Length(text) \in 6..299
    /\ FromFallback => \A text \in FallbackTexts : Kept(text) <=> Length(text) \in 6..299

\* the texts of 6 and 299 characters were kept and those of 5 and 300
\* dropped, from a reply of the service
C19_BoundsSeenOnModelPath ==
    /\ FromModel
    /\ {Length(text) : text \in ReplyTexts} = {4, 5, 6, 299, 300, 301}
    /\ {Length(res.tasks[j].task.v) : j \in 1..Len(res.tasks)} = {6, 299}

\* C20: the list the regex fallback returns holds no two items whose task
\* texts are equal letter case apart, and every item carries the assignee
\* 'Unassigned'.
C20_FallbackUniqueUnassigned ==
    FromFallback =>
        /\ \A j, k \in 1..Len(res.tasks) :
              LowerText(res.tasks[j].task.v) = LowerText(res.tasks[k].task.v) => j = k
        /\ \A j \in 1..Len(res.tasks) : res.tasks[j].assignee = Str(<<"Unassigned">>)

\* C21: with the generative path unavailable, the example text "John: I'll
\* review the budget by Friday. Sarah: I need to schedule a meeting." yields
\* exactly the two items "review the budget by Friday." and "schedule a
\* meeting.", both with assignee 'Unassigned'.
C21_ExampleYieldsTwoItems ==
    (FromFallback /\ h.text = TExample /\ h.reply = NoReply)
    => /\ Len(res.tasks) = 2
       /\ res.tasks[1].task = Str(<<"review", " ", "the", " ", "budget", " ", "by", " ",
                                    "Friday", ".">>)
       /\ res.tasks[2].task = Str(<<"schedule", " ", "a", " ", "meeting", ".">>)
       /\ \A j \in 1..2 : res.tasks[j].assignee = Str(<<"Unassigned">>)

\* the call a request is expected to authorise with: the refresh token of its
\* own cookie for the refresh, and for the task APIs the access token of its
\* own cookie, or the token refreshed from it once the request has refreshed
OwnAuth(k) ==
    LET call == inflight.calls[k]
        bundle == JSONParse(inflight.reqs[call.user].cookie).value
    IN IF call.api = "oauth.refresh" THEN bundle.refresh_token
       ELSE IF \E j \in 1..(k - 1) : /\ inflight.calls[j].user = call.user
                                      /\ inflight.calls[j].api = "oauth.refresh"
            THEN TokenOfRefresh(bundle.refresh_token)
            ELSE bundle.access_token

\* C22: however the requests of different users interleave, every call is
\* made with the credentials parsed from the cookie of the request that makes
\* it, or with their refresh within that request.
C22_OwnCredentials ==
    \A k \in 1..Len(inflight.calls) : inflight.calls[k].auth = OwnAuth(k)

\* a request went on after another user's request had set its credentials:
\* alice listed, bob listed, then alice inserted and bob inserted
C22_Interleaved ==
    /\ Len(inflight.calls) >= 4
    /\ \E i, j, k, l \in 1..Len(inflight.calls) :
        /\ i < j /\ j < k /\ k < l
        /\ inflight.calls[i].user = "alice" /\ inflight.calls[i].api = "tasklists.list"
        /\ inflight.calls[j].user = "bob" /\ inflight.calls[j].api = "tasklists.list"
        /\ inflight.calls[k].user = "alice" /\ inflight.calls[k].api = "tasks.insert"
        /\ inflight.calls[l].user = "bob" /\ inflight.calls[l].api = "tasks.insert"
        /\ inflight.calls[k].auth # inflight.calls[l].auth

\* C23: every response carries X-Frame-Options: DENY, X-Content-Type-Options:
\* nosniff, X-XSS-Protection: 1; mode=block, Referrer-Policy:
\* strict-origin-when-cross-origin and Permissions-Policy: geolocation=(),
\* microphone=(), camera=(), and no X-Powered-By, the response to GET /
\* included.
C23_SecurityHeadersOnEveryResponse ==
    (pc = "done" /\ res.sent)
    => /\ res.headers["X-Frame-Options"] = "DENY"
       /\ res.headers["X-Content-Type-Options"] = "nosniff"
       /\ res.headers["X-XSS-Protection"] = "1; mode=block"
       /\ res.headers["Referrer-Policy"] = "strict-origin-when-cross-origin"
       /\ res.headers["Permissions-Policy"] = "geolocation=(), microphone=(), camera=()"
       /\ res.headers["X-Powered-By"] = ""

\* C24: a request whose userTokens cookie parses to a bundle with an
\* access_token and an expiry_date later than now (such as the access_token
\* "test" of the tests) passes the gate, and what follows runs with exactly
\* that bundle attached to the request.
C24_PresentTokenPasses ==
    (GateRan /\ Truthy(req.rawUserTokens))
    => \A parsed \in {JSONParse(req.rawUserTokens)} :
          ( /\ parsed.ok
            /\ ~PropThrows(parsed.value)
            /\ Truthy(Prop(parsed.value, "access_token"))
            /\ Prop(parsed.value, "expiry_date").t = "number"
            /\ Prop(parsed.value, "expiry_date").v > req.at )
          => /\ GatePassed
             /\ req.userTokens = parsed.value

\* C25: /confirm-tasks answers 'Failed to create any tasks' only when at
\* least one remote insertion was attempted and every attempted insertion
\* failed.
C25_FailureOnlyAfterFailedInserts ==
    ( /\ pc = "done"
      /\ req.path = "/confirm-tasks"
      /\ res.message = "Failed to create any tasks. Please try again." )
    => /\ \E k \in 1..Len(calls) : IsInsert(calls[k])
       /\ \A k \in 1..Len(calls) : IsInsert(calls[k]) => calls[k].ok = "failed"

\* the batch submitted holds only items with a task text
ItemsWithText ==
    /\ pc = "done"
    /\ req.path = "/confirm-tasks"
    /\ req.raw.t = "array"
    /\ req.raw.v # <<>>
    /\ \A k \in 1..Len(req.raw.v) :
          /\ req.raw.v[k].t = "object"
          /\ req.raw.v[k].task.t = "string"
          /\ Trim(req.raw.v[k].task.v) # <<>>

\* the due field expected for a deadline: its ISO-8601 form when it is a
\* valid date, none otherwise
DueOf(deadline) ==
    IF deadline.t = "string" /\ deadline.v \in ISO8601Texts
    THEN Str(<<deadline.v[1] \o ".000Z">>) ELSE Undef

\* C26: an item whose deadline is absent, null or not a valid date does not
\* cause the batch to be rejected, and each item is inserted with a due field
\* exactly when its deadline is a valid date, in ISO-8601 form.
C26_DueIffValidDeadline ==
    ItemsWithText
    => /\ res.by # "validate"
       /\ res.by = "loop" =>
            LET inserts == SelectSeq(calls, IsInsert)
            IN /\ Len(inserts) = Len(req.raw.v)
               /\ \A k \in 1..Len(inserts) :
                     inserts[k].arg.due = DueOf(req.raw.v[k].deadline)

\* the error has one of the statuses, or its message holds one of the
\* phrases, letter case apart
Transient(error, statuses, phrases) ==
    \/ error.status.t = "number" /\ error.status.v \in statuses
    \/ /\ error.message.t = "string"
       /\ \E phrase \in phrases : Includes(LowerText(error.message.v), phrase)

\* the k-th call of the run failed and another call followed it
Retried(k) == k \in 1..Len(gh.errors) /\ (k < gh.attempts \/ (k = gh.attempts /\ gh.pc = "delay"))

\* C27: a failed call is followed by another one only if its error has status
\* 429, 500, 502, 503 or 504, or its message contains 'overloaded', 'rate
\* limit', 'timeout', 'network error' or 'fetch failed'.
C27_RetriedOnlyIfListed ==
    \A k \in 1..Len(gh.errors) :
        Retried(k) =>
            Transient(gh.errors[k], {429, 500, 502, 503, 504},
                      { <<"overloaded">>, <<"rate", " ", "limit">>, <<"timeout">>,
                        <<"network", " ", "error">>, <<"fetch", " ", "failed">> })

\* C27 (amended): a failed call is followed by another one only if its error
\* has status 429, 500, 502, 503 or 504, or its message contains 'overloaded',
\* 'service unavailable', 'rate limit', 'timeout', 'network error' or 'fetch
\* failed'.
C27_RetriedOnlyIfListedOrUnavailable ==
    \A k \in 1..Len(gh.errors) :
        Retried(k) =>
            Transient(gh.errors[k], {429, 500, 502, 503, 504},
                      { <<"overloaded">>, <<"service", " ", "unavailable">>,
                        <<"rate", " ", "limit">>, <<"timeout">>,
                        <<"network", " ", "error">>, <<"fetch", " ", "failed">> })

\* a call failed with 'Service Unavailable' and no status, and was retried;
\* a later call failed with a 400 and the run ended there
C27_UnavailableRetried ==
    /\ gh.pc = "done"
    /\ \E k \in 1..Len(gh.errors) :
          /\ Retried(k)
          /\ gh.errors[k] = ApiError(Undef, Str(<<"Service", " ", "Unavailable">>))
    /\ gh.errors # <<>>
    /\ gh.errors[Len(gh.errors)].status = Num(400)
    /\ Len(gh.errors) = gh.attempts

\* C28: when the generative call of /process-text or /process-transcript
\* fails with a transient error, it is called again before the regex
\* fallback answers.
C28_RoutesRetry ==
    ( /\ pc = "done"
      /\ req.path \in {"/process-text", "/process-transcript"}
      /\ res.by = "generate"
      /\ h.error # NoError
      /\ Transient(h.error, {429, 500, 502, 503, 504},
                   { <<"overloaded">>, <<"service", " ", "unavailable">>,
                     <<"rate", " ", "limit">>, <<"timeout">>,
                     <<"network", " ", "error">>, <<"fetch", " ", "failed">> }) )
    => Cardinality({k \in 1..Len(calls) : calls[k].api = "generateContent"}) >= 2

\* C29: every insertion of /add-task and of /confirm-tasks targets the user's
\* default task list ("list-default", which the alias '@default' names),
\* whatever other lists the user has.
C29_InsertsIntoDefaultList ==
    \A k \in 1..Len(calls) :
        IsInsert(calls[k]) => calls[k].arg.tasklist \in {"@default", "list-default"}

\* C30: /add-task answers 200 with success:true whenever the tasks.insert
\* call of the request succeeded; it answers with a failure status only if no
\* task was created.
C30_CreatedIsSuccess ==
    ( /\ pc = "done"
      /\ req.path = "/add-task"
      /\ \E k \in 1..Len(calls) : IsInsert(calls[k]) /\ calls[k].ok = "ok" )
    => res.status = 200 /\ res.success

====
